---- MODULE Spec2Model ----
(***************************************************************************)
(* Model of checkpoint (redrum91/checkpoint): the installer's              *)
(* ExecuteCommand state machine (cmd/checkpoint/main.go, package           *)
(* installer), the disk registry with its mount-table scan                 *)
(* (pkg/disk/stats.go, pkg/disk/types.go), the grouping of the registry    *)
(* into drives (package disk, GroupDisks), the statistics (GetStats) and   *)
(* the used-percentages the views of package ui print.                     *)
(*                                                                         *)
(* Go strings are modelled as sequences of one-character strings, so that  *)
(* strings.Contains, strings.HasPrefix, strings.Fields, strings.ToLower    *)
(* and strings.TrimSpace are computed character by character as the Go     *)
(* library computes them.                                                  *)
(***************************************************************************)
EXTENDS Integers, Sequences, FiniteSets, TLC

VARIABLES
    \* ---- installer.ExecuteCommand -------------------------------------
    command,     \* the command text ExecuteCommand was called with
    targetDisk,  \* mount point of the target Disk, or NoDisk for a nil pointer
    environ,     \* the process environment (os.Environ), a sequence of [key, val]
    pc,          \* position of the invocation
    cmd,         \* the exec.Cmd under construction: [argv, Dir, Env]
    sudoCommand, \* promptForSudo's local command text after the prepend step
    result,      \* the error value the invocation returned ("pending" while running)
    trace,       \* history: the externally visible steps, in order
    \* ---- disk.Manager ---------------------------------------------------
    disks,       \* Manager.disks
    scanCache,   \* Manager.scanCache
    mountTable,  \* the lines of /proc/mounts, or Unreadable
    statfsOf,    \* syscall.Statfs per mount point: a Statfs_t record or StatfsFail
    lastOp,      \* history: the last Manager operation and what it returned
    \* ---- disk.GroupDisks, Manager.GetStats and the views of package ui ----
    groups,       \* what the last GroupDisks call returned
    prevGroups,   \* history: what the GroupDisks call before it returned
    stats,        \* what the last GetStats call returned
    shown,        \* the used-percentages the last rendering printed
    devicePath,   \* the argument of getBaseDiskName
    baseDiskName, \* what getBaseDiskName returned for it
    \* ---- main: the menu loop ----------------------------------------------
    friendlyView, \* main's friendlyView
    showDetails,  \* main's showDetails
    menu,         \* position of main in its loop
    lastMenu      \* history: the option handled last and what its handler did

execVars == <<command, targetDisk, environ, pc, cmd, sudoCommand, result, trace>>
diskVars == <<disks, scanCache, mountTable, statfsOf, lastOp>>
viewVars == <<groups, prevGroups, stats, shown, devicePath, baseDiskName>>
vars == <<command, targetDisk, environ, pc, cmd, sudoCommand, result, trace,
          disks, scanCache, mountTable, statfsOf, lastOp,
          groups, prevGroups, stats, shown, devicePath, baseDiskName,
          friendlyView, showDetails, menu, lastMenu>>
menuVars == <<friendlyView, showDetails, menu, lastMenu>>

\* no option handled yet
NoMenu ==
    [option |-> "none", eof |-> FALSE, friendly |-> TRUE,
     command |-> <<>>, selection |-> <<>>, listed |-> 0, invalid |-> FALSE,
     called |-> FALSE, target |-> [present |-> FALSE, MountPoint |-> <<>>],
     before |-> <<>>]

\* main is not running
MenuIdle ==
    /\ friendlyView = TRUE
    /\ showDetails = FALSE
    /\ menu = "none"
    /\ lastMenu = NoMenu

\* nothing grouped, counted, rendered or stripped yet
NotCalled == [called |-> FALSE]

ViewIdle ==
    /\ groups = NotCalled
    /\ prevGroups = NotCalled
    /\ stats = NotCalled
    /\ shown = NotCalled
    /\ devicePath = <<>>
    /\ baseDiskName = NotCalled

(***************************************************************************)
(* Go string library                                                       *)
(***************************************************************************)
\* unicode.IsSpace restricted to the characters used here
IsSpace(c) == c \in {" ", "\t", "\n", "\r"}

HasPrefix(s, prefix) ==
    /\ Len(prefix) <= Len(s)
    /\ SubSeq(s, 1, Len(prefix)) = prefix

Contains(s, substr) ==
    \E i \in 0..(Len(s) - Len(substr)) : SubSeq(s, i + 1, i + Len(substr)) = substr

UpperChars == <<"A","B","C","D","E","F","G","H","I","J","K","L","M",
                "N","O","P","Q","R","S","T","U","V","W","X","Y","Z">>
LowerChars == <<"a","b","c","d","e","f","g","h","i","j","k","l","m",
                "n","o","p","q","r","s","t","u","v","w","x","y","z">>

ToLowerChar(c) ==
    IF \E i \in DOMAIN UpperChars : UpperChars[i] = c
    THEN LowerChars[CHOOSE i \in DOMAIN UpperChars : UpperChars[i] = c]
    ELSE c

ToLower(s) == [i \in DOMAIN s |-> ToLowerChar(s[i])]

RECURSIVE TrimLeft(_)
TrimLeft(s) ==
    IF s # <<>> /\ IsSpace(Head(s)) THEN TrimLeft(Tail(s)) ELSE s

RECURSIVE TrimRight(_)
TrimRight(s) ==
    IF s # <<>> /\ IsSpace(s[Len(s)]) THEN TrimRight(SubSeq(s, 1, Len(s) - 1)) ELSE s

TrimSpace(s) == TrimRight(TrimLeft(s))

\* strings.Fields: the maximal runs of non-space characters, in order
RECURSIVE FieldsFrom(_, _, _)
FieldsFrom(s, cur, acc) ==
    IF s = <<>>
    THEN IF cur = <<>> THEN acc ELSE Append(acc, cur)
    ELSE IF IsSpace(Head(s))
         THEN FieldsFrom(Tail(s), <<>>, IF cur = <<>> THEN acc ELSE Append(acc, cur))
         ELSE FieldsFrom(Tail(s), Append(cur, Head(s)), acc)

Fields(s) == FieldsFrom(s, <<>>, <<>>)

(***************************************************************************)
(* installer: string constants of main.go                                  *)
(***************************************************************************)
sudo       == <<"s","u","d","o">>
sudoPrefix == <<"s","u","d","o"," ">>
apt        == <<"a","p","t">>
dpkg       == <<"d","p","k","g">>
yum        == <<"y","u","m">>
dnf        == <<"d","n","f">>
pacman     == <<"p","a","c","m","a","n">>
zypper     == <<"z","y","p","p","e","r">>
yes        == <<"y","e","s">>
y          == <<"y">>
dotLocal   == <<"/",".","l","o","c","a","l">>

PermissionExitCode == 100
GenericExitCode1   == 1
GenericExitCode2   == 2

(***************************************************************************)
(* installer: inputs of one invocation                                     *)
(***************************************************************************)
\* command texts: empty, blank, plain, each package-manager name, the keyword
\* in first position (space, tab, alone, after a leading blank), and the
\* keyword or a manager name inside a longer word
Commands == {
    <<>>,
    <<" ">>,
    <<"m","a","k","e">>,
    <<"a","p","t"," ","x">>,
    <<"s","u","d","o"," ","a","p","t">>,
    <<"s","u","d","o","\t","a","p","t">>,
    <<" ","s","u","d","o"," ","d","n","f">>,
    <<"s","u","d","o">>,
    <<"v","i","s","u","d","o">>,
    <<"a","d","a","p","t">>,
    <<"d","p","k","g">>,
    <<"y","u","m">>,
    <<"d","n","f">>,
    <<"p","a","c","m","a","n">>,
    <<"z","y","p","p","e","r">> }

NoDisk == [present |-> FALSE, MountPoint |-> <<>>]
TargetMountPoints == { <<"/">>, <<"/","m","n","t">>, <<"/","h","/",".","l","o","c","a","l">> }
Targets == {NoDisk} \cup {[present |-> TRUE, MountPoint |-> m] : m \in TargetMountPoints}

\* os.Environ(): no key occurs twice in a process environment
Environs == {
    <<>>,
    << [key |-> "HOME", val |-> <<"/","h">>] >>,
    << [key |-> "HOME", val |-> <<"/","h">>], [key |-> "DESTDIR", val |-> <<"/","o","l","d">>] >> }

\* what cmd.Run() returns: nil, an *exec.ExitError with its exit code
\* (-1 when the child was killed by a signal), or an error that is no
\* ExitError because the process could not be started
ExitCodes == {-1, 1, 2, 3, 99, 100, 101}
RunOk     == [kind |-> "nil", code |-> 0]
RunStart  == [kind |-> "start", code |-> 0]
Outcomes  == {RunOk, RunStart} \cup {[kind |-> "exit", code |-> c] : c \in ExitCodes}

\* the line the operator types at the escalation prompt
AnswerLines == {
    <<"y","e","s">>,
    <<"y">>,
    <<"Y","E","S">>,
    <<"Y">>,
    <<" ","y"," ">>,
    <<"y","e","s"," ","o","k">>,
    <<"n","o">>,
    <<"n">>,
    <<>>,
    <<"y","e","p">> }

Pending      == [kind |-> "pending", code |-> 0]
ErrEmpty     == [kind |-> "empty command", code |-> 0]
ErrNoWrite   == [kind |-> "no write permission", code |-> 0]
ErrCancelled == [kind |-> "command cancelled by user", code |-> 0]

NilEnv == [set |-> FALSE, vars |-> <<>>]
NoCmd  == [argv |-> <<>>, Dir |-> <<>>, Env |-> NilEnv]
NoEv   == [ev |-> "", text |-> <<>>, cmd |-> NoCmd, out |-> Pending,
           ok |-> FALSE, escalated |-> FALSE]

(***************************************************************************)
(* installer: helpers of ExecuteCommand and promptForSudo                  *)
(***************************************************************************)
\* os.Getenv: the value of key, "" when it is not set
Getenv(env, key) ==
    IF \E i \in DOMAIN env : env[i].key = key
    THEN env[CHOOSE i \in DOMAIN env : env[i].key = key].val
    ELSE <<>>

\* os/exec keeps the last entry of a key that occurs more than once in
\* cmd.Env; a nil cmd.Env makes the child inherit the process environment
ChildGetenv(e, penv, key) ==
    IF ~e.set THEN Getenv(penv, key)
    ELSE IF \E i \in DOMAIN e.vars : e.vars[i].key = key
         THEN e.vars[CHOOSE i \in DOMAIN e.vars :
                        /\ e.vars[i].key = key
                        /\ \A j \in DOMAIN e.vars : e.vars[j].key = key => j <= i].val
         ELSE <<>>

\* mutant of containsSudo: the keyword is looked for at the start only
containsSudoAtStart(c) == HasPrefix(c, sudoPrefix)

\* the security check of ExecuteCommand
containsSudo(c) == Contains(c, sudo)

\* mutant of targetEnv: the three variables replace the inherited environment
targetEnvAlone(penv, mountPoint) ==
    << [key |-> "PREFIX",       val |-> Getenv(penv, "HOME") \o dotLocal],
       [key |-> "DESTDIR",      val |-> mountPoint],
       [key |-> "INSTALL_ROOT", val |-> mountPoint] >>

\* env := os.Environ(); env = append(env, PREFIX=..., DESTDIR=..., INSTALL_ROOT=...)
targetEnv(penv, mountPoint) ==
    penv \o << [key |-> "PREFIX",       val |-> Getenv(penv, "HOME") \o dotLocal],
               [key |-> "DESTDIR",      val |-> mountPoint],
               [key |-> "INSTALL_ROOT", val |-> mountPoint] >>

\* exec.Command(parts[0], parts[1:]...)
execCommand(parts) == [argv |-> parts, Dir |-> <<>>, Env |-> NilEnv]

\* cmd.Dir = targetDisk.MountPoint; cmd.Env = env
withTarget(c, penv, mountPoint) ==
    [c EXCEPT !.Dir = mountPoint,
              !.Env = [set |-> TRUE, vars |-> targetEnv(penv, mountPoint)]]

containsPackageManager(c) ==
    \/ Contains(c, apt) \/ Contains(c, dpkg)
    \/ Contains(c, yum) \/ Contains(c, dnf)
    \/ Contains(c, pacman) \/ Contains(c, zypper)

\* mutant of isPermissionError: exit codes 1 and 2 count for every command text
isPermissionErrorAnyText(c, err) ==
    /\ err.kind = "exit"
    /\ err.code \in {PermissionExitCode, GenericExitCode1, GenericExitCode2}

isPermissionError(c, err) ==
    IF err.kind = "exit"
    THEN IF err.code = PermissionExitCode
         THEN TRUE
         ELSE IF /\ (err.code = GenericExitCode1 \/ err.code = GenericExitCode2)
                 /\ containsPackageManager(c)
              THEN TRUE
              ELSE FALSE
    ELSE FALSE

\* fmt.Scanln(&response): the first space-delimited token of the line, ""
\* when the line holds none; then strings.ToLower(strings.TrimSpace(response))
scanResponse(line) ==
    LET toks == Fields(line)
        response == IF toks = <<>> THEN <<>> ELSE toks[1]
    IN  ToLower(TrimSpace(response))

\* mutant of consents: every answer that starts with y counts as consent
consentsByInitial(response) == HasPrefix(response, y)

consents(response) == response = yes \/ response = y

\* if !strings.HasPrefix(command, "sudo ") { command = "sudo " + command }
withSudo(c) == IF ~HasPrefix(c, sudoPrefix) THEN sudoPrefix \o c ELSE c

\* mutant of caveatEvents: the caveat is never printed
caveatDropped(t) == <<>>

\* the caveat promptForSudo prints when a target disk was given
caveatEvents(t) ==
    IF t.present THEN << [NoEv EXCEPT !.ev = "caveat", !.escalated = TRUE] >> ELSE <<>>

(***************************************************************************)
(* installer.ExecuteCommand, one action per blocking step                  *)
(***************************************************************************)
ExecInit ==
    /\ command \in Commands
    /\ targetDisk \in Targets
    /\ environ \in Environs
    /\ pc = "entry"
    /\ cmd = NoCmd
    /\ sudoCommand = <<>>
    /\ result = Pending
    /\ trace = <<>>
    /\ disks = <<>>
    /\ scanCache = {}
    /\ mountTable = <<>>
    /\ statfsOf = <<>>
    /\ lastOp = <<>>
    /\ ViewIdle
    /\ MenuIdle

\* the command contains "sudo": print the warning and wait for Enter
SudoWarning ==
    /\ pc = "entry"
    /\ containsSudo(command)
    /\ trace' = Append(trace, [NoEv EXCEPT !.ev = "confirm", !.text = command])
    /\ pc' = "tokenize"
    /\ UNCHANGED <<command, targetDisk, environ, cmd, sudoCommand, result>>
    /\ UNCHANGED diskVars
    /\ UNCHANGED viewVars
    /\ UNCHANGED menuVars

NoSudoWarning ==
    /\ pc = "entry"
    /\ ~containsSudo(command)
    /\ pc' = "tokenize"
    /\ UNCHANGED <<command, targetDisk, environ, cmd, sudoCommand, result, trace>>
    /\ UNCHANGED diskVars
    /\ UNCHANGED viewVars
    /\ UNCHANGED menuVars

\* parts := strings.Fields(command); empty check; exec.Command
Tokenize ==
    /\ pc = "tokenize"
    /\ LET parts == Fields(command) IN
       IF Len(parts) = 0
       THEN /\ result' = ErrEmpty
            /\ pc' = "done"
            /\ cmd' = cmd
       ELSE /\ cmd' = execCommand(parts)
            /\ pc' = IF targetDisk.present THEN "probe" ELSE "run"
            /\ result' = result
    /\ UNCHANGED <<command, targetDisk, environ, sudoCommand, trace>>
    /\ UNCHANGED diskVars
    /\ UNCHANGED viewVars
    /\ UNCHANGED menuVars

\* mutant of Probe: the result of canWrite is ignored
ProbeIgnored ==
    /\ pc = "probe"
    /\ \E ok \in BOOLEAN :
        /\ trace' = Append(trace, [NoEv EXCEPT !.ev = "probe", !.ok = ok,
                                               !.text = targetDisk.MountPoint])
        /\ cmd' = withTarget(cmd, environ, targetDisk.MountPoint)
        /\ pc' = "run"
        /\ result' = result
    /\ UNCHANGED <<command, targetDisk, environ, sudoCommand>>
    /\ UNCHANGED diskVars
    /\ UNCHANGED viewVars
    /\ UNCHANGED menuVars

\* canWrite(targetDisk.MountPoint): os.Create of the test file succeeds or not
Probe ==
    /\ pc = "probe"
    /\ \E ok \in BOOLEAN :
        /\ trace' = Append(trace, [NoEv EXCEPT !.ev = "probe", !.ok = ok,
                                               !.text = targetDisk.MountPoint])
        /\ IF ~ok
           THEN /\ result' = ErrNoWrite
                /\ pc' = "done"
                /\ cmd' = cmd
           ELSE /\ cmd' = withTarget(cmd, environ, targetDisk.MountPoint)
                /\ pc' = "run"
                /\ result' = result
    /\ UNCHANGED <<command, targetDisk, environ, sudoCommand>>
    /\ UNCHANGED diskVars
    /\ UNCHANGED viewVars
    /\ UNCHANGED menuVars

\* err := cmd.Run(), then the classification of err
Run ==
    /\ pc = "run"
    /\ \E err \in Outcomes :
        /\ trace' = Append(trace, [NoEv EXCEPT !.ev = "run", !.cmd = cmd, !.out = err,
                                               !.ok = (err.kind # "start")])
        /\ IF err # RunOk /\ isPermissionError(command, err)
           THEN /\ pc' = "prompt"
                /\ result' = result
           ELSE /\ pc' = "done"
                /\ result' = err
    /\ UNCHANGED <<command, targetDisk, environ, cmd, sudoCommand>>
    /\ UNCHANGED diskVars
    /\ UNCHANGED viewVars
    /\ UNCHANGED menuVars

\* promptForSudo up to the retry's cmd.Run(): the prompt, the answer, the
\* prepend step, the caveat
Prompt ==
    /\ pc = "prompt"
    /\ \E line \in AnswerLines :
        LET response == scanResponse(line)
            asked == [NoEv EXCEPT !.ev = "prompt", !.text = line]
        IN  IF consents(response)
            THEN /\ sudoCommand' = withSudo(command)
                 /\ cmd' = execCommand(Fields(withSudo(command)))
                 /\ trace' = Append(trace, asked) \o caveatEvents(targetDisk)
                 /\ pc' = "retry"
                 /\ result' = result
            ELSE /\ trace' = Append(trace, asked)
                 /\ result' = ErrCancelled
                 /\ pc' = "done"
                 /\ UNCHANGED <<cmd, sudoCommand>>
    /\ UNCHANGED <<command, targetDisk, environ>>
    /\ UNCHANGED diskVars
    /\ UNCHANGED viewVars
    /\ UNCHANGED menuVars

\* mutant of Retry: the retry's error is classified like the first run's
RetryClassified ==
    /\ pc = "retry"
    /\ \E err \in Outcomes :
        /\ trace' = Append(trace, [NoEv EXCEPT !.ev = "run", !.cmd = cmd, !.out = err,
                                               !.ok = (err.kind # "start"),
                                               !.escalated = TRUE])
        /\ IF err # RunOk /\ isPermissionError(sudoCommand, err)
           THEN /\ pc' = "prompt"
                /\ result' = result
           ELSE /\ pc' = "done"
                /\ result' = err
    /\ UNCHANGED <<command, targetDisk, environ, cmd, sudoCommand>>
    /\ UNCHANGED diskVars
    /\ UNCHANGED viewVars
    /\ UNCHANGED menuVars

\* return cmd.Run() of promptForSudo
Retry ==
    /\ pc = "retry"
    /\ \E err \in Outcomes :
        /\ trace' = Append(trace, [NoEv EXCEPT !.ev = "run", !.cmd = cmd, !.out = err,
                                               !.ok = (err.kind # "start"),
                                               !.escalated = TRUE])
        /\ result' = err
        /\ pc' = "done"
    /\ UNCHANGED <<command, targetDisk, environ, cmd, sudoCommand>>
    /\ UNCHANGED diskVars
    /\ UNCHANGED viewVars
    /\ UNCHANGED menuVars

ExecNext ==
    \/ SudoWarning
    \/ NoSudoWarning
    \/ Tokenize
    \/ Probe
    \/ Run
    \/ Prompt
    \/ Retry

ExecSpec == ExecInit /\ [][ExecNext]_vars

(***************************************************************************)
(* disk: string constants of stats.go and types.go                         *)
(***************************************************************************)
TypePhysical == "physical"
TypeLVM      == "lvm"
TypeLoop     == "loop"
TypeBind     == "bind"
TypeNetwork  == "network"
TypeFUSE     == "fuse"
TypePath     == "path"
TypeManual   == "manual"
TypeSymlink  == "symlink"
NoType       == ""

virtualFS == {
    <<"t","m","p","f","s">>,
    <<"d","e","v","t","m","p","f","s">>,
    <<"s","y","s","f","s">>,
    <<"p","r","o","c">>,
    <<"c","g","r","o","u","p">>,
    <<"c","g","r","o","u","p","2">>,
    <<"d","e","b","u","g","f","s">>,
    <<"s","e","c","u","r","i","t","y","f","s">>,
    <<"p","s","t","o","r","e">>,
    <<"e","f","i","v","a","r","f","s">>,
    <<"b","p","f">>,
    <<"t","r","a","c","e","f","s">>,
    <<"h","u","g","e","t","l","b","f","s">>,
    <<"m","q","u","e","u","e">>,
    <<"c","o","n","f","i","g","f","s">>,
    <<"r","a","m","f","s">>,
    <<"a","u","t","o","f","s">>,
    <<"f","u","s","e","c","t","l">> }

bind      == <<"b","i","n","d">>
devLoop   == <<"/","d","e","v","/","l","o","o","p">>
devMapper == <<"/","d","e","v","/","m","a","p","p","e","r","/">>
devDir    == <<"/","d","e","v","/">>
slash     == <<"/">>
nfs       == <<"n","f","s">>
nfs4      == <<"n","f","s","4">>
cifs      == <<"c","i","f","s">>
smb       == <<"s","m","b">>
fuse      == <<"f","u","s","e">>
unknownFS == <<"u","n","k","n","o","w","n">>

(***************************************************************************)
(* disk: the environment of the Manager                                    *)
(***************************************************************************)
\* width of the unsigned integers of Disk.Size, Disk.Available and Disk.Used
\* (uint64 in the source, scaled down so that wrap-around is within reach)
UintBits == 6
UintMod  == 2 ^ UintBits

sda1    == <<"/","d","e","v","/","s","d","a","1">>
sdb1    == <<"/","d","e","v","/","s","d","b","1">>
loop0   == <<"/","d","e","v","/","l","o","o","p","0">>
mapperV == <<"/","d","e","v","/","m","a","p","p","e","r","/","v">>
devFuse == <<"/","d","e","v","/","f","u","s","e">>
nfsHost == <<"h",":","/","x">>
sshfs   == <<"s","s","h","f","s">>
srvDir  == <<"/","s","r","v">>
none    == <<"n","o","n","e">>
Devices == {sda1, loop0, mapperV, devFuse, nfsHost, sshfs, srvDir, none}

ext4      == <<"e","x","t","4">>
tmpfs     == <<"t","m","p","f","s">>
fuseSshfs == <<"f","u","s","e",".","s","s","h","f","s">>
fusectl   == <<"f","u","s","e","c","t","l">>
Filesystems == {ext4, nfs, nfs4, cifs, smb, fuse, fuseSshfs, fusectl, tmpfs, none}

rw     == <<"r","w">>
rwBind == <<"r","w",",","b","i","n","d">>
OptionSets == {rw, rwBind}

root == <<"/">>
mnt  == <<"/","m","n","t">>
MountPoints == {root, mnt}

\* one line of /proc/mounts: device, mount point, filesystem, options, dump, pass
mountLine(device, mountPoint, filesystem, options) ==
    device \o <<" ">> \o mountPoint \o <<" ">> \o filesystem \o <<" ">> \o options
        \o <<" ","0"," ","0">>

\* lines that share mount points: kept, virtual, without a type, too short, empty
SharedLines == {
    mountLine(sda1, root, ext4, rw),
    mountLine(sdb1, root, ext4, rw),
    mountLine(tmpfs, root, tmpfs, rw),
    mountLine(none, root, none, rw),
    mountLine(sda1, mnt, ext4, rw),
    mountLine(sdb1, mnt, ext4, rw),
    sdb1 \o <<" ">> \o root \o <<" ">> \o ext4,
    <<>> }

MaxLines == 3

RECURSIVE SeqsUpTo(_, _)
SeqsUpTo(S, n) ==
    IF n = 0 THEN {<<>>}
    ELSE LET shorter == SeqsUpTo(S, n - 1)
         IN  shorter \cup {Append(q, x) : q \in shorter, x \in S}

\* /proc/mounts as ScanDisks finds it: whether os.Open succeeds, the lines the
\* bufio.Scanner delivers, and whether scanner.Err() reports an error after them
ReadableTable(lines) == [open |-> TRUE, lines |-> lines, err |-> FALSE]
BrokenTable(lines)   == [open |-> TRUE, lines |-> lines, err |-> TRUE]
UnreadableTable      == [open |-> FALSE, lines |-> <<>>, err |-> FALSE]

SharedTables == {ReadableTable(q) : q \in SeqsUpTo(SharedLines, MaxLines)}
SingleTables ==
    {ReadableTable(<<mountLine(d, mnt, f, o)>>) :
        d \in Devices, f \in Filesystems, o \in OptionSets}

\* syscall.Statfs: an error, or the fields of Statfs_t the Manager reads; a
\* FUSE or network filesystem reports whatever its server answers, so Bfree
\* above Blocks occurs
StatfsFail  == [err |-> TRUE,  Blocks |-> 0, Bfree |-> 0, Bavail |-> 0, Bsize |-> 0]
StatfsSane  == [err |-> FALSE, Blocks |-> 4, Bfree |-> 2, Bavail |-> 1, Bsize |-> 2]
StatfsEmpty == [err |-> FALSE, Blocks |-> 0, Bfree |-> 0, Bavail |-> 0, Bsize |-> 4]
StatfsOdd   == [err |-> FALSE, Blocks |-> 1, Bfree |-> 2, Bavail |-> 2, Bsize |-> 1]
StatfsResults == {StatfsFail, StatfsSane, StatfsEmpty, StatfsOdd}

\* os.Lstat(device): device nodes exist, /dev/mapper entries are symlinks,
\* names that are no paths do not exist
lstat(device) ==
    CASE device = sda1    -> [ok |-> TRUE, symlink |-> FALSE, target |-> <<>>, ino |-> 11]
      [] device = sdb1    -> [ok |-> TRUE, symlink |-> FALSE, target |-> <<>>, ino |-> 12]
      [] device = loop0   -> [ok |-> TRUE, symlink |-> FALSE, target |-> <<>>, ino |-> 13]
      [] device = devFuse -> [ok |-> TRUE, symlink |-> FALSE, target |-> <<>>, ino |-> 14]
      [] device = mapperV -> [ok |-> TRUE, symlink |-> TRUE,
                              target |-> <<"/","d","e","v","/","d","m","-","0">>, ino |-> 15]
      [] device = srvDir  -> [ok |-> TRUE, symlink |-> FALSE, target |-> <<>>, ino |-> 16]
      [] OTHER            -> [ok |-> FALSE, symlink |-> FALSE, target |-> <<>>, ino |-> 0]

\* os.Stat(mountPoint): the root directory of a mounted filesystem
stat(path) ==
    CASE path = root -> [ok |-> TRUE, dir |-> TRUE, ino |-> 2]
      [] path = mnt  -> [ok |-> TRUE, dir |-> TRUE, ino |-> 2]
      [] OTHER       -> [ok |-> FALSE, dir |-> FALSE, ino |-> 0]

(***************************************************************************)
(* disk: unsigned arithmetic                                               *)
(***************************************************************************)
umul(a, b) == (a * b) % UintMod
usub(a, b) == (a - b + UintMod) % UintMod

(***************************************************************************)
(* disk.Manager: classification and the mount-table scan                   *)
(***************************************************************************)
\* mutant of determineDiskType: the /dev/ test comes before the more specific
\* /dev/loop and /dev/mapper/ tests
determineDiskTypeDevFirst(device, filesystem, options) ==
    CASE Contains(options, bind) -> TypeBind
      [] ~Contains(options, bind) /\ HasPrefix(device, devDir) -> TypePhysical
      [] OTHER ->
           IF filesystem = nfs \/ filesystem = nfs4 \/ filesystem = cifs \/ filesystem = smb
           THEN TypeNetwork
           ELSE IF filesystem = fuse \/ Contains(filesystem, fuse)
           THEN TypeFUSE
           ELSE IF HasPrefix(device, slash) /\ ~HasPrefix(device, devDir)
           THEN TypePath
           ELSE NoType

determineDiskType(device, filesystem, options) ==
    IF Contains(options, bind) THEN TypeBind
    ELSE IF HasPrefix(device, devLoop) THEN TypeLoop
    ELSE IF HasPrefix(device, devMapper) THEN TypeLVM
    ELSE IF HasPrefix(device, devDir) THEN TypePhysical
    ELSE IF filesystem = nfs \/ filesystem = nfs4 \/ filesystem = cifs \/ filesystem = smb
    THEN TypeNetwork
    ELSE IF filesystem = fuse \/ Contains(filesystem, fuse) THEN TypeFUSE
    ELSE IF HasPrefix(device, slash) /\ ~HasPrefix(device, devDir) THEN TypePath
    ELSE NoType

NilDisk == [nil |-> TRUE]

\* the inode of the device, or of the mount point when the device has none
diskInode(device, mountPoint) ==
    LET info == lstat(device)
        first == IF info.ok THEN info.ino ELSE 0
    IN  IF first = 0
        THEN IF stat(mountPoint).ok THEN stat(mountPoint).ino ELSE 0
        ELSE first

analyzeDisk(device, mountPoint, filesystem, options, statfs) ==
    LET diskType == determineDiskType(device, filesystem, options)
        st == statfs[mountPoint]
        info == lstat(device)
    IN  IF diskType = NoType THEN NilDisk
        ELSE IF st.err THEN NilDisk
        ELSE [nil        |-> FALSE,
              Path       |-> device,
              Device     |-> device,
              Filesystem |-> filesystem,
              Size       |-> umul(st.Blocks, st.Bsize),
              Available  |-> umul(st.Bavail, st.Bsize),
              Used       |-> umul(usub(st.Blocks, st.Bfree), st.Bsize),
              MountPoint |-> mountPoint,
              Type       |-> diskType,
              IsSymlink  |-> info.ok /\ info.symlink,
              LinkTarget |-> IF info.ok /\ info.symlink THEN info.target ELSE <<>>,
              Inode      |-> diskInode(device, mountPoint)]

\* mutant of scanLine: a mount point counts as seen only once a line for it
\* got past the virtual-filesystem test
scanLineLateMark(line, seenMounts, found, statfs) ==
    LET fields == Fields(line) IN
    IF line = <<>> \/ Len(fields) < 4 THEN [seenMounts |-> seenMounts, found |-> found]
    ELSE IF fields[2] \in seenMounts THEN [seenMounts |-> seenMounts, found |-> found]
    ELSE IF fields[3] \in virtualFS THEN [seenMounts |-> seenMounts, found |-> found]
    ELSE LET disk == analyzeDisk(fields[1], fields[2], fields[3], fields[4], statfs)
         IN  [seenMounts |-> seenMounts \cup {fields[2]},
              found |-> IF disk.nil THEN found ELSE Append(found, disk)]

\* the body of the loop of ScanDisks for one line
scanLine(line, seenMounts, found, statfs) ==
    LET fields == Fields(line) IN
    IF line = <<>> THEN [seenMounts |-> seenMounts, found |-> found]
    ELSE IF Len(fields) < 4 THEN [seenMounts |-> seenMounts, found |-> found]
    ELSE LET device == fields[1]
             mountPoint == fields[2]
             filesystem == fields[3]
             options == fields[4]
         IN  IF mountPoint \in seenMounts
             THEN [seenMounts |-> seenMounts, found |-> found]
             ELSE IF filesystem \in virtualFS
             THEN [seenMounts |-> seenMounts \cup {mountPoint}, found |-> found]
             ELSE LET disk == analyzeDisk(device, mountPoint, filesystem, options, statfs)
                  IN  [seenMounts |-> seenMounts \cup {mountPoint},
                       found |-> IF disk.nil THEN found ELSE Append(found, disk)]

\* for scanner.Scan() { ... }, from an empty seenMounts
RECURSIVE scanLines(_, _, _, _)
scanLines(lines, seenMounts, found, statfs) ==
    IF lines = <<>> THEN found
    ELSE LET next == scanLine(Head(lines), seenMounts, found, statfs)
         IN  scanLines(Tail(lines), next.seenMounts, next.found, statfs)

\* mutant of scanDisks: the scan starts from an empty list
scanDisksAfresh(ds, table, statfs) ==
    IF ~table.open
    THEN [disks |-> ds, err |-> "failed to open /proc/mounts"]
    ELSE [disks |-> scanLines(table.lines, {}, <<>>, statfs),
          err |-> IF table.err THEN "error reading /proc/mounts" ELSE "nil"]

\* what ScanDisks leaves in m.disks and what it returns (scanSymlinks, called
\* last, returns at once and adds nothing)
scanDisks(ds, table, statfs) ==
    IF ~table.open
    THEN [disks |-> ds, err |-> "failed to open /proc/mounts"]
    ELSE [disks |-> scanLines(table.lines, {}, ds, statfs),
          err |-> IF table.err THEN "error reading /proc/mounts" ELSE "nil"]

MaxDisks == 3

ScanDisks ==
    /\ LET r == scanDisks(disks, mountTable, statfsOf) IN
        /\ Len(r.disks) <= MaxDisks
        /\ disks' = r.disks
        /\ lastOp' = [op |-> "ScanDisks", err |-> r.err, before |-> disks]
    /\ UNCHANGED <<scanCache, mountTable, statfsOf>>
    /\ UNCHANGED execVars
    /\ UNCHANGED viewVars
    /\ UNCHANGED menuVars

(***************************************************************************)
(* One ScanDisks on a new Manager, for every mount table                   *)
(***************************************************************************)
\* the capacity query decides a record's fate only by failing or not
ScanStatfsResults == {StatfsFail, StatfsSane, StatfsOdd}

NoOp == [op |-> "NewManager", err |-> "nil", before |-> <<>>]

ExecIdle ==
    /\ command = <<>>
    /\ targetDisk = NoDisk
    /\ environ = <<>>
    /\ pc = "idle"
    /\ cmd = NoCmd
    /\ sudoCommand = <<>>
    /\ result = Pending
    /\ trace = <<>>

ScanInit ==
    /\ ExecIdle
    /\ disks = <<>>
    /\ scanCache = {}
    /\ mountTable \in SharedTables \cup SingleTables
    /\ statfsOf \in [MountPoints -> ScanStatfsResults]
    /\ lastOp = NoOp
    /\ ViewIdle
    /\ MenuIdle

FirstScan ==
    /\ lastOp = NoOp
    /\ ScanDisks

ScanNext == FirstScan

ScanSpec == ScanInit /\ [][ScanNext]_vars

(***************************************************************************)
(* disk.Manager: AddCustomPath, AddDisk, ClearDisks                        *)
(***************************************************************************)
dot    == <<".">>
dotdot == <<".", ".">>
cwd    == mnt
mntFile == <<"/","m","n","t","/","f">>

\* the elements of a path between its separators
RECURSIVE elementsFrom(_, _, _)
elementsFrom(s, cur, acc) ==
    IF s = <<>>
    THEN IF cur = <<>> THEN acc ELSE Append(acc, cur)
    ELSE IF Head(s) = "/"
         THEN elementsFrom(Tail(s), <<>>, IF cur = <<>> THEN acc ELSE Append(acc, cur))
         ELSE elementsFrom(Tail(s), Append(cur, Head(s)), acc)

\* filepath.Clean on a rooted path: "." elements dropped, ".." elements
\* resolved against the element before them, nothing above the root
RECURSIVE cleanElements(_, _)
cleanElements(elems, acc) ==
    IF elems = <<>> THEN acc
    ELSE IF Head(elems) = dot THEN cleanElements(Tail(elems), acc)
    ELSE IF Head(elems) = dotdot
         THEN cleanElements(Tail(elems),
                            IF acc = <<>> THEN acc ELSE SubSeq(acc, 1, Len(acc) - 1))
    ELSE cleanElements(Tail(elems), Append(acc, Head(elems)))

RECURSIVE joinRooted(_)
joinRooted(elems) ==
    IF elems = <<>> THEN <<>>
    ELSE <<"/">> \o Head(elems) \o joinRooted(Tail(elems))

\* filepath.Abs: a rooted path is cleaned, any other is joined to the
\* working directory first
Abs(path) ==
    LET rooted == IF HasPrefix(path, slash) THEN path ELSE cwd \o slash \o path
        elems == cleanElements(elementsFrom(rooted, <<>>, <<>>), <<>>)
    IN  IF elems = <<>> THEN slash ELSE joinRooted(elems)

\* os.Stat on the paths of AddCustomPath
statPath(absPath) ==
    IF absPath = mntFile THEN [ok |-> TRUE, dir |-> FALSE, ino |-> 21]
    ELSE stat(absPath)

\* the mounted filesystem a path lies on
mountOf(absPath) ==
    IF absPath = mnt \/ HasPrefix(absPath, mnt \o slash) THEN mnt ELSE root

CustomPaths == { <<"/","m","n","t">>, <<"/","m","n","t","/">>, <<".">>, <<"/","m","n","t","/","f">>, <<"/","n","o","p","e">>, <<"x">>, <<"/","m","n","t","/",".",".">> }

\* mutant of addCustomPath: a path that is no directory is appended all the same
addCustomPathAppendFirst(ds, path, statfs) ==
    LET absPath == Abs(path)
        info == statPath(absPath)
        st == statfs[mountOf(absPath)]
        disk == [nil        |-> FALSE,
                 Path       |-> absPath,
                 Device     |-> absPath,
                 Filesystem |-> unknownFS,
                 Size       |-> umul(st.Blocks, st.Bsize),
                 Available  |-> umul(st.Bavail, st.Bsize),
                 Used       |-> umul(usub(st.Blocks, st.Bfree), st.Bsize),
                 MountPoint |-> absPath,
                 Type       |-> TypeManual,
                 IsSymlink  |-> FALSE,
                 LinkTarget |-> <<>>,
                 Inode      |-> info.ino]
    IN  IF ~info.ok THEN [disks |-> ds, err |-> "failed to stat path"]
        ELSE IF ~info.dir THEN [disks |-> Append(ds, disk), err |-> "path is not a directory"]
        ELSE IF st.err THEN [disks |-> ds, err |-> "failed to get filesystem stats"]
        ELSE [disks |-> Append(ds, disk), err |-> "nil"]

\* what AddCustomPath leaves in m.disks and what it returns
addCustomPath(ds, path, statfs) ==
    LET absPath == Abs(path)
        info == statPath(absPath)
        st == statfs[mountOf(absPath)]
    IN  IF ~info.ok THEN [disks |-> ds, err |-> "failed to stat path"]
        ELSE IF ~info.dir THEN [disks |-> ds, err |-> "path is not a directory"]
        ELSE IF st.err THEN [disks |-> ds, err |-> "failed to get filesystem stats"]
        ELSE [disks |-> Append(ds,
                 [nil        |-> FALSE,
                  Path       |-> absPath,
                  Device     |-> absPath,
                  Filesystem |-> unknownFS,
                  Size       |-> umul(st.Blocks, st.Bsize),
                  Available  |-> umul(st.Bavail, st.Bsize),
                  Used       |-> umul(usub(st.Blocks, st.Bfree), st.Bsize),
                  MountPoint |-> absPath,
                  Type       |-> TypeManual,
                  IsSymlink  |-> FALSE,
                  LinkTarget |-> <<>>,
                  Inode      |-> info.ino]),
              err |-> "nil"]

AddCustomPath ==
    /\ \E path \in CustomPaths :
        LET r == addCustomPath(disks, path, statfsOf) IN
        /\ Len(r.disks) <= MaxDisks
        /\ disks' = r.disks
        /\ lastOp' = [op |-> "AddCustomPath", err |-> r.err, before |-> disks,
                     arg |-> path]
    /\ UNCHANGED <<scanCache, mountTable, statfsOf>>
    /\ UNCHANGED execVars
    /\ UNCHANGED viewVars
    /\ UNCHANGED menuVars

\* Disk values a caller hands to AddDisk: the fields are the caller's
SampleDisk(size, available, used) ==
    [nil        |-> FALSE,
     Path       |-> sdb1,
     Device     |-> sdb1,
     Filesystem |-> ext4,
     Size       |-> size,
     Available  |-> available,
     Used       |-> used,
     MountPoint |-> mnt,
     Type       |-> TypePhysical,
     IsSymlink  |-> FALSE,
     LinkTarget |-> <<>>,
     Inode      |-> 0]

SampleDisks == {SampleDisk(8, 2, 4), SampleDisk(1, 3, 2)}

AddDisk ==
    /\ Len(disks) < MaxDisks
    /\ \E disk \in SampleDisks :
        /\ disks' = Append(disks, disk)
        /\ lastOp' = [op |-> "AddDisk", err |-> "nil", before |-> disks]
    /\ UNCHANGED <<scanCache, mountTable, statfsOf>>
    /\ UNCHANGED execVars
    /\ UNCHANGED viewVars
    /\ UNCHANGED menuVars

ClearDisks ==
    /\ disks' = <<>>
    /\ scanCache' = {}
    /\ lastOp' = [op |-> "ClearDisks", err |-> "nil", before |-> disks]
    /\ UNCHANGED <<mountTable, statfsOf>>
    /\ UNCHANGED execVars
    /\ UNCHANGED viewVars
    /\ UNCHANGED menuVars

(***************************************************************************)
(* Any sequence of Manager operations on a new Manager                     *)
(***************************************************************************)
RegistryTables == {
    UnreadableTable,
    ReadableTable(<<mountLine(sda1, root, ext4, rw), mountLine(sdb1, mnt, ext4, rw)>>),
    ReadableTable(<<mountLine(mapperV, root, ext4, rw), mountLine(nfsHost, mnt, nfs, rw)>>),
    BrokenTable(<<mountLine(sda1, root, ext4, rw)>>) }

RegistryInit ==
    /\ ExecIdle
    /\ disks = <<>>
    /\ scanCache = {}
    /\ mountTable \in RegistryTables
    /\ statfsOf \in [MountPoints -> StatfsResults]
    /\ lastOp = NoOp
    /\ ViewIdle
    /\ MenuIdle

RegistryNext ==
    \/ ScanDisks
    \/ AddCustomPath
    \/ AddDisk
    \/ ClearDisks

RegistrySpec == RegistryInit /\ [][RegistryNext]_vars

(***************************************************************************)
(* disk: grouping of the registry into drives (GroupDisks)                 *)
(***************************************************************************)
\* byte counts are counted in units of 256 MiB, so that 1 GiB is 4
GiB == 4

uadd(a, b) == (a + b) % UintMod

bootPrefix == <<"/", "b", "o", "o", "t">>
snapPrefix == <<"/", "s", "n", "a", "p">>
runPrefix == <<"/", "r", "u", "n">>
sysPrefix == <<"/", "s", "y", "s">>
procPrefix == <<"/", "p", "r", "o", "c">>
devNvme == <<"/", "d", "e", "v", "/", "n", "v", "m", "e">>
devSd == <<"/", "d", "e", "v", "/", "s", "d">>
homeHint == <<"h", "o", "m", "e">>
dataHint == <<"d", "a", "t", "a">>
backupHint == <<"b", "a", "c", "k", "u", "p">>
mediaHint == <<"m", "e", "d", "i", "a">>

DecimalDigits == <<"0", "1", "2", "3", "4", "5", "6", "7", "8", "9">>

IsDigit(c) == \E i \in 1..Len(DecimalDigits) : DecimalDigits[i] = c

\* fmt's %d of a non-negative int
RECURSIVE itoa(_)
itoa(n) ==
    IF n < 10 THEN <<DecimalDigits[n + 1]>>
    ELSE itoa(n \div 10) \o <<DecimalDigits[(n % 10) + 1]>>

\* the loop of getBaseDiskName at index i (1-based), base being path[:i]
RECURSIVE baseFrom(_, _)
baseFrom(path, i) ==
    IF i >= 1 /\ IsDigit(path[i]) THEN baseFrom(path, i - 1)
    ELSE SubSeq(path, 1, i)

\* mutant of getBaseDiskName: only the last digit is removed
getBaseDiskNameOneDigit(path) ==
    IF Len(path) >= 1 /\ IsDigit(path[Len(path)])
    THEN SubSeq(path, 1, Len(path) - 1)
    ELSE path

getBaseDiskName(path) == baseFrom(path, Len(path))

getDriveName(disk, index) ==
    IF Contains(disk.MountPoint, homeHint) THEN <<"H", "o", "m", "e", " ", "D", "r", "i", "v", "e">>
    ELSE IF Contains(disk.MountPoint, dataHint) THEN <<"D", "a", "t", "a", " ", "D", "r", "i", "v", "e">>
    ELSE IF Contains(disk.MountPoint, backupHint) THEN <<"B", "a", "c", "k", "u", "p", " ", "D", "r", "i", "v", "e">>
    ELSE IF Contains(disk.MountPoint, mediaHint) THEN <<"M", "e", "d", "i", "a", " ", "D", "r", "i", "v", "e">>
    ELSE IF disk.Type = TypeLVM THEN <<"V", "o", "l", "u", "m", "e", " ">> \o itoa(index)
    ELSE IF HasPrefix(disk.Path, devNvme) THEN <<"S", "S", "D", " ", "D", "r", "i", "v", "e", " ">> \o itoa(index)
    ELSE IF HasPrefix(disk.Path, devSd) THEN <<"D", "r", "i", "v", "e", " ">> \o itoa(index)
    ELSE <<"S", "t", "o", "r", "a", "g", "e", " ">> \o itoa(index)

\* the icons are named, not drawn
getDriveIcon(disk) ==
    IF HasPrefix(disk.Path, devNvme) THEN "high voltage"
    ELSE IF disk.Type = TypeNetwork THEN "globe"
    ELSE IF disk.Type = TypeLVM THEN "file cabinet"
    ELSE "floppy disk"

getDriveDescription(disk) ==
    IF HasPrefix(disk.Path, devNvme) THEN "NVMe SSD"
    ELSE IF disk.Type = TypeLVM THEN "Logical Volume"
    ELSE IF HasPrefix(disk.Path, devSd) THEN "Hard Drive"
    ELSE "Storage Device"

\* strings.Split(text, "/"): the pieces between the slashes, empty ones kept
RECURSIVE splitFrom(_, _, _)
splitFrom(text, i, piece) ==
    IF i > Len(text) THEN <<piece>>
    ELSE IF text[i] = "/" THEN <<piece>> \o splitFrom(text, i + 1, <<>>)
    ELSE splitFrom(text, i + 1, Append(piece, text[i]))

SplitSlash(text) == splitFrom(text, 1, <<>>)

getNetworkDriveName(disk) ==
    IF disk.Type = TypeNetwork
    THEN LET parts == SplitSlash(disk.Path)
         IN IF Len(parts) > 2
            THEN <<"N", "e", "t", "w", "o", "r", "k", " ", "(">> \o parts[3] \o <<")">>
            ELSE <<"N", "e", "t", "w", "o", "r", "k", " ", "D", "r", "i", "v", "e">>
    ELSE <<"R", "e", "m", "o", "t", "e", " ", "S", "t", "o", "r", "a", "g", "e">>

\* lines 34-60: the first disk mounted at "/", or 0
rootIndex(ds) ==
    LET hits == {i \in 1..Len(ds) : ds[i].MountPoint = root}
    IN  IF hits = {} THEN 0 ELSE CHOOSE i \in hits : \A j \in hits : i <= j

\* lines 50-57: the inner loop that adds the boot partitions
RECURSIVE addBootDisks(_, _)
addBootDisks(group, ds) ==
    IF ds = <<>> THEN group
    ELSE LET d == Head(ds)
         IN  addBootDisks(
                 IF HasPrefix(d.MountPoint, bootPrefix)
                 THEN [group EXCEPT !.Disks = Append(@, d),
                                    !.TotalSize = uadd(@, d.Size),
                                    !.TotalUsed = uadd(@, d.Used)]
                 ELSE group,
                 Tail(ds))

rootGroup(disk) ==
    [Name        |-> <<"S", "y", "s", "t", "e", "m", " ", "D", "r", "i", "v", "e">>,
     Icon        |-> "laptop",
     Type        |-> "system",
     TotalSize   |-> disk.Size,
     TotalUsed   |-> disk.Used,
     Available   |-> disk.Available,
     Disks       |-> <<disk>>,
     IsPrimary   |-> TRUE,
     Description |-> "Linux System"]

\* mutant of systemGroup: the boot partitions are not added
systemGroupRootOnly(ds) ==
    IF rootIndex(ds) = 0 THEN <<>> ELSE <<rootGroup(ds[rootIndex(ds)])>>

\* the system group pointer: no group (nil) or one
systemGroup(ds) ==
    IF rootIndex(ds) = 0 THEN <<>>
    ELSE <<addBootDisks(rootGroup(ds[rootIndex(ds)]), ds)>>

\* the paths marked in grouped when the first loop is left
systemGrouped(ds) ==
    IF rootIndex(ds) = 0 THEN {}
    ELSE {ds[rootIndex(ds)].Path}
         \cup {ds[i].Path : i \in {j \in 1..Len(ds) : HasPrefix(ds[j].MountPoint, bootPrefix)}}

\* mutant of skipsDataGroup: no floor of 1 GiB
skipsDataGroupAnySize(disk, grouped) ==
    \/ disk.Path \in grouped
    \/ disk.Type = TypeLoop
    \/ HasPrefix(disk.MountPoint, snapPrefix)
    \/ HasPrefix(disk.MountPoint, runPrefix)
    \/ HasPrefix(disk.MountPoint, sysPrefix)
    \/ HasPrefix(disk.MountPoint, procPrefix)

\* lines 66-78: the two continue statements of the second loop
skipsDataGroup(disk, grouped) ==
    \/ disk.Path \in grouped
    \/ disk.Type = TypeLoop
    \/ HasPrefix(disk.MountPoint, snapPrefix)
    \/ HasPrefix(disk.MountPoint, runPrefix)
    \/ HasPrefix(disk.MountPoint, sysPrefix)
    \/ HasPrefix(disk.MountPoint, procPrefix)
    \/ disk.Size < GiB

newDataGroup(disk, index) ==
    [Name        |-> getDriveName(disk, index),
     Icon        |-> getDriveIcon(disk),
     Type        |-> "data",
     TotalSize   |-> disk.Size,
     TotalUsed   |-> disk.Used,
     Available   |-> disk.Available,
     Disks       |-> <<disk>>,
     IsPrimary   |-> FALSE,
     Description |-> getDriveDescription(disk)]

\* mutant of mergeDisk: only TotalSize is added to
mergeDiskSizeOnly(group, disk) ==
    [group EXCEPT !.Disks = Append(@, disk),
                  !.TotalSize = uadd(@, disk.Size)]

\* lines 83-87: another partition of a base name already seen
mergeDisk(group, disk) ==
    [group EXCEPT !.Disks = Append(@, disk),
                  !.TotalSize = uadd(@, disk.Size),
                  !.TotalUsed = uadd(@, disk.Used),
                  !.Available = uadd(@, disk.Available)]

\* lines 65-104: physicalDisks is the map, kept as its entries [key, group];
\* dataGroups is the slice that is still empty while this loop runs
RECURSIVE groupData(_, _, _, _)
groupData(ds, grouped, physicalDisks, dataGroups) ==
    IF ds = <<>> THEN [grouped |-> grouped, physicalDisks |-> physicalDisks]
    ELSE LET disk == Head(ds)
         IN  IF skipsDataGroup(disk, grouped)
             THEN groupData(Tail(ds), grouped, physicalDisks, dataGroups)
             ELSE LET baseName == getBaseDiskName(disk.Path)
                      hits == {k \in 1..Len(physicalDisks) :
                                  physicalDisks[k].key = baseName}
                  IN  groupData(
                          Tail(ds),
                          grouped \cup {disk.Path},
                          IF hits # {}
                          THEN LET k == CHOOSE h \in hits : TRUE
                               IN  [physicalDisks EXCEPT
                                       ![k].group = mergeDisk(@, disk)]
                          ELSE Append(physicalDisks,
                                      [key   |-> baseName,
                                       group |-> newDataGroup(disk, Len(dataGroups) + 1)]),
                          dataGroups)

networkGroup(disk) ==
    [Name        |-> getNetworkDriveName(disk),
     Icon        |-> "globe",
     Type        |-> "network",
     TotalSize   |-> disk.Size,
     TotalUsed   |-> disk.Used,
     Available   |-> disk.Available,
     Disks       |-> <<disk>>,
     IsPrimary   |-> FALSE,
     Description |-> "Network Storage"]

\* lines 112-130
RECURSIVE removableGroups(_, _)
removableGroups(ds, grouped) ==
    IF ds = <<>> THEN <<>>
    ELSE LET disk == Head(ds)
         IN  IF disk.Path \notin grouped
                /\ (disk.Type = TypeNetwork \/ disk.Type = TypeFUSE)
             THEN <<networkGroup(disk)>> \o removableGroups(Tail(ds), grouped)
             ELSE removableGroups(Tail(ds), grouped)

\* every order in which a range over a map of n entries can visit them
IterationOrders(n) ==
    {order \in [1..n -> 1..n] : \A i, j \in 1..n : order[i] = order[j] => i = j}

\* lines 107-109 for one visiting order
dataGroupsIn(physicalDisks, order) ==
    [k \in 1..Len(physicalDisks) |-> physicalDisks[order[k]].group]

\* GroupDisks for one visiting order of the map
groupDisksIn(ds, order) ==
    LET second == groupData(ds, systemGrouped(ds), <<>>, <<>>)
    IN  systemGroup(ds)
        \o dataGroupsIn(second.physicalDisks, order)
        \o removableGroups(ds, second.grouped)

\* the map that the second loop of GroupDisks builds
physicalDisksOf(ds) == groupData(ds, systemGrouped(ds), <<>>, <<>>).physicalDisks

\* everything GroupDisks can return for ds
GroupDisksResults(ds) ==
    {groupDisksIn(ds, order) : order \in IterationOrders(Len(physicalDisksOf(ds)))}

\* one call, or a second call on the same registry: groups and prevGroups
\* hold the last two results, and a third call returns nothing that the
\* second cannot
GroupDisks ==
    /\ ~prevGroups.called
    /\ \E returned \in GroupDisksResults(disks) :
        /\ groups' = [called |-> TRUE, groups |-> returned]
        /\ prevGroups' = groups
    /\ UNCHANGED <<stats, shown, devicePath, baseDiskName>>
    /\ UNCHANGED diskVars
    /\ UNCHANGED execVars
    /\ UNCHANGED menuVars

(***************************************************************************)
(* disk.Manager.GetStats                                                   *)
(***************************************************************************)
RECURSIVE countOfType(_, _)
countOfType(ds, type) ==
    IF ds = <<>> THEN 0
    ELSE (IF Head(ds).Type = type THEN 1 ELSE 0) + countOfType(Tail(ds), type)

\* lines 39-43: the three running totals; field is "Size", "Available" or "Used"
RECURSIVE totalOf(_, _)
totalOf(ds, field) ==
    IF ds = <<>> THEN 0
    ELSE LET disk == Head(ds)
             rest == totalOf(Tail(ds), field)
         IN  IF disk.Type # TypeSymlink THEN uadd(disk[field], rest) ELSE rest

\* lines 46-48: the paths appended under one inode, in the order of the loop
RECURSIVE hardlinkPaths(_, _)
hardlinkPaths(ds, inode) ==
    IF ds = <<>> THEN <<>>
    ELSE LET disk == Head(ds)
         IN  IF disk.Inode > 0 /\ disk.Type # TypeSymlink /\ disk.Inode = inode
             THEN <<disk.Path>> \o hardlinkPaths(Tail(ds), inode)
             ELSE hardlinkPaths(Tail(ds), inode)

\* the Hardlinks map when the first loop is left
hardlinksCollected(ds) ==
    LET inodes == {ds[i].Inode : i \in {j \in 1..Len(ds) :
                      ds[j].Inode > 0 /\ ds[j].Type # TypeSymlink}}
    IN  [inode \in inodes |-> hardlinkPaths(ds, inode)]

\* mutant of cleanUp: an inode with one path is kept
cleanUpEmptyOnly(hardlinks) ==
    [inode \in {i \in DOMAIN hardlinks : ~(Len(hardlinks[i]) < 1)} |-> hardlinks[inode]]

\* lines 60-64: delete every inode with at most one path
cleanUp(hardlinks) ==
    [inode \in {i \in DOMAIN hardlinks : ~(Len(hardlinks[i]) <= 1)} |-> hardlinks[inode]]

\* lines 51-56
RECURSIVE symlinksOf(_)
symlinksOf(ds) ==
    IF ds = <<>> THEN <<>>
    ELSE LET disk == Head(ds)
         IN  IF disk.IsSymlink /\ disk.LinkTarget # <<>>
             THEN <<[Source |-> disk.Path, Target |-> disk.LinkTarget]>>
                  \o symlinksOf(Tail(ds))
             ELSE symlinksOf(Tail(ds))

getStats(ds) ==
    [called         |-> TRUE,
     TotalDisks     |-> Len(ds),
     TotalSize      |-> totalOf(ds, "Size"),
     TotalAvailable |-> totalOf(ds, "Available"),
     TotalUsed      |-> totalOf(ds, "Used"),
     DisksByType    |-> [type \in {ds[i].Type : i \in 1..Len(ds)} |-> countOfType(ds, type)],
     Hardlinks      |-> cleanUp(hardlinksCollected(ds)),
     Symlinks       |-> symlinksOf(ds)]

GetStats ==
    /\ stats' = getStats(disks)
    /\ UNCHANGED <<groups, prevGroups, shown, devicePath, baseDiskName>>
    /\ UNCHANGED diskVars
    /\ UNCHANGED execVars
    /\ UNCHANGED menuVars

(***************************************************************************)
(* The used-percentages of GetSummary and package ui                       *)
(***************************************************************************)
NaN == [float |-> "NaN"]
PosInf == [float |-> "+Inf"]

\* float64(used) / float64(size) * 100: IEEE 754 gives NaN for 0/0 and +Inf
\* for a positive numerator over 0; a finite quotient is kept as a fraction
usedPercent(used, size) ==
    IF size = 0 THEN (IF used = 0 THEN NaN ELSE PosInf)
    ELSE [float |-> "finite", num |-> used * 100, den |-> size]

\* stand-ins for the largest and the smallest int: beyond every percentage a
\* finite quotient of two byte counts can give
IntMax == UintMod * 100
IntMin == 0 - IntMax

\* int(f): truncation; for NaN and +Inf the result depends on the build
\* (amd64 gives the smallest int for both, arm64 gives 0 and the largest int)
intOf(f) ==
    IF f.float = "finite" THEN {f.num \div f.den}
    ELSE IF f.float = "NaN" THEN {IntMin, 0}
    ELSE {IntMin, IntMax}

BarWidth == 40

\* createProgressBar: the number of filled cells
createProgressBar(percent, width) ==
    LET clamped == IF percent < 0 THEN 0 ELSE IF percent > 100 THEN 100 ELSE percent
    IN  (width * clamped) \div 100

Rendered(by, lines) == [called |-> TRUE, by |-> by, lines |-> lines]

\* stats.go 70-100: the one percentage of the summary text
GetSummary ==
    /\ stats.called
    /\ shown' = Rendered("GetSummary",
                         <<[size    |-> stats.TotalSize,
                            percent |-> usedPercent(stats.TotalUsed, stats.TotalSize)]>>)
    /\ UNCHANGED <<groups, prevGroups, stats, devicePath, baseDiskName>>
    /\ UNCHANGED diskVars
    /\ UNCHANGED execVars
    /\ UNCHANGED menuVars

MainStorageShown == 5

\* part_001 56-71: one line for each of the first five physical or lvm disks
RECURSIVE mainStorageLines(_, _)
mainStorageLines(ds, diskCount) ==
    IF ds = <<>> THEN <<>>
    ELSE LET d == Head(ds)
         IN  IF d.Type = TypePhysical \/ d.Type = TypeLVM
             THEN (IF diskCount + 1 <= MainStorageShown
                   THEN <<[size |-> d.Size, percent |-> usedPercent(d.Used, d.Size)]>>
                   ELSE <<>>)
                  \o mainStorageLines(Tail(ds), diskCount + 1)
             ELSE mainStorageLines(Tail(ds), diskCount)

\* part_001 31-92, called with the statistics and the registry's disks
DisplaySummary ==
    /\ stats.called
    /\ shown' = Rendered("DisplaySummary",
                         <<[size    |-> stats.TotalSize,
                            percent |-> usedPercent(stats.TotalUsed, stats.TotalSize)]>>
                         \o mainStorageLines(disks, 0))
    /\ UNCHANGED <<groups, prevGroups, stats, devicePath, baseDiskName>>
    /\ UNCHANGED diskVars
    /\ UNCHANGED execVars
    /\ UNCHANGED menuVars

\* friendly.go 53-95: what displayDriveGroup can print for one group
displayDriveGroup(group) ==
    LET percent == usedPercent(group.TotalUsed, group.TotalSize)
    IN  {[size    |-> group.TotalSize,
          percent |-> percent,
          filled  |-> createProgressBar(i, BarWidth)] : i \in intOf(percent)}

RECURSIVE friendlyRenderings(_)
friendlyRenderings(gs) ==
    IF gs = <<>> THEN {<<>>}
    ELSE {<<line>> \o rest : line \in displayDriveGroup(Head(gs)),
                             rest \in friendlyRenderings(Tail(gs))}

\* friendly.go 42-51
DisplayFriendlyDisks ==
    /\ groups.called
    /\ \E lines \in friendlyRenderings(groups.groups) :
        shown' = Rendered("DisplayFriendlyDisks", lines)
    /\ UNCHANGED <<groups, prevGroups, stats, devicePath, baseDiskName>>
    /\ UNCHANGED diskVars
    /\ UNCHANGED execVars
    /\ UNCHANGED menuVars

\* friendly.go 110-134
DisplaySimpleDiskList ==
    /\ groups.called
    /\ shown' = Rendered("DisplaySimpleDiskList",
                         [i \in 1..Len(groups.groups) |->
                             [size    |-> groups.groups[i].TotalSize,
                              percent |-> usedPercent(groups.groups[i].TotalUsed,
                                                      groups.groups[i].TotalSize)]])
    /\ UNCHANGED <<groups, prevGroups, stats, devicePath, baseDiskName>>
    /\ UNCHANGED diskVars
    /\ UNCHANGED execVars
    /\ UNCHANGED menuVars

(***************************************************************************)
(* The views over a registry that holds any few disks                      *)
(***************************************************************************)
ListedDisk(path, mountPoint, type, size, used, available, inode) ==
    [nil        |-> FALSE,
     Path       |-> path,
     Device     |-> path,
     Filesystem |-> IF type = TypeNetwork THEN nfs
                    ELSE IF type = TypeFUSE THEN fuseSshfs ELSE ext4,
     Size       |-> size,
     Available  |-> available,
     Used       |-> used,
     MountPoint |-> mountPoint,
     Type       |-> type,
     IsSymlink  |-> FALSE,
     LinkTarget |-> <<>>,
     Inode      |-> inode]

\* a Disk of type symlink, as a caller of AddDisk can make one
LinkedDisk ==
    [ListedDisk(<<"/", "l">>, <<"/", "l">>, TypeSymlink, 2, 1, 1, 2)
        EXCEPT !.IsSymlink = TRUE, !.LinkTarget = <<"/", "t">>]

\* the root and its boot partition, two partitions of one drive (the second
\* with the used count of a capacity query whose free blocks exceed its
\* blocks), a drive of its own, a partition below 1 GiB, a network export,
\* an empty FUSE mount, a snap loop device, a symlink, "/" added by hand, and
\* the root's device mounted a second time
ListedDisks == {
    ListedDisk(<<"/", "d", "e", "v", "/", "s", "d", "a", "2">>, root, TypePhysical, 8, 4, 3, 2),
    ListedDisk(root, root, TypeManual, 8, 5, 2, 2),
    ListedDisk(<<"/", "d", "e", "v", "/", "s", "d", "a", "2">>, <<"/", "d", "a", "t", "a">>, TypePhysical, 8, 4, 3, 2),
    ListedDisk(sda1, <<"/", "b", "o", "o", "t">>, TypePhysical, 1, 1, 0, 2),
    ListedDisk(sdb1, <<"/", "h", "o", "m", "e">>, TypePhysical, 8, 4, 4, 2),
    ListedDisk(<<"/", "d", "e", "v", "/", "s", "d", "b", "2">>, mnt, TypePhysical, 4, UintMod - 2, 6, 0),
    ListedDisk(<<"/", "d", "e", "v", "/", "s", "d", "c", "1">>, srvDir, TypePhysical, 5, 1, 4, 7),
    ListedDisk(<<"/", "d", "e", "v", "/", "s", "d", "d", "1">>, <<"/", "e", "f", "i">>, TypePhysical, 2, 1, 1, 0),
    ListedDisk(nfsHost, <<"/", "n", "e", "t">>, TypeNetwork, 6, 2, 4, 0),
    ListedDisk(sshfs, <<"/", "m", "n", "t", "/", "s">>, TypeFUSE, 0, 0, 0, 0),
    ListedDisk(loop0, <<"/", "s", "n", "a", "p", "/", "x">>, TypeLoop, 4, 4, 0, 0),
    LinkedDisk }

MaxListed == 3

\* the two reads of the registry: GroupDisks and GetStats
GroupInit ==
    /\ ExecIdle
    /\ disks \in SeqsUpTo(ListedDisks, MaxListed)
    /\ scanCache = {}
    /\ mountTable = UnreadableTable
    /\ statfsOf = [mountPoint \in MountPoints |-> StatfsFail]
    /\ lastOp = NoOp
    /\ ViewIdle
    /\ MenuIdle

GroupNext ==
    \/ GroupDisks
    \/ GetStats

GroupSpec == GroupInit /\ [][GroupNext]_vars

MaxViewed == 2

\* the reads and the renderings of what they returned
ViewInit ==
    /\ ExecIdle
    /\ disks \in SeqsUpTo(ListedDisks, MaxViewed)
    /\ scanCache = {}
    /\ mountTable = UnreadableTable
    /\ statfsOf = [mountPoint \in MountPoints |-> StatfsFail]
    /\ lastOp = NoOp
    /\ ViewIdle
    /\ MenuIdle

ViewNext ==
    \/ GroupDisks
    \/ GetStats
    \/ GetSummary
    \/ DisplaySummary
    \/ DisplayFriendlyDisks
    \/ DisplaySimpleDiskList

ViewSpec == ViewInit /\ [][ViewNext]_vars

(***************************************************************************)
(* getBaseDiskName on its own                                              *)
(***************************************************************************)
MaxDigits == 2

PathStems == {<<>>, <<"/", "d", "e", "v", "/", "s", "d", "a">>, <<"/", "d", "e", "v", "/", "n", "v", "m", "e", "0", "n", "1", "p">>, mapperV, nfsHost, <<"/", "d", "e", "v", "/", "m", "d">>}

DigitRuns == SeqsUpTo({"0", "1", "9"}, MaxDigits)

DevicePaths == {stem \o run : stem \in PathStems, run \in DigitRuns}

BaseNameInit ==
    /\ ExecIdle
    /\ disks = <<>>
    /\ scanCache = {}
    /\ mountTable = UnreadableTable
    /\ statfsOf = [mountPoint \in MountPoints |-> StatfsFail]
    /\ lastOp = NoOp
    /\ groups = NotCalled
    /\ prevGroups = NotCalled
    /\ stats = NotCalled
    /\ shown = NotCalled
    /\ devicePath \in DevicePaths
    /\ baseDiskName = NotCalled
    /\ MenuIdle

\* getBaseDiskName(devicePath)
GetBaseDiskName ==
    /\ ~baseDiskName.called
    /\ baseDiskName' = [called |-> TRUE,
                        base   |-> getBaseDiskName(devicePath),
                        first  |-> getBaseDiskName(devicePath),
                        times  |-> 1]
    /\ UNCHANGED <<groups, prevGroups, stats, shown, devicePath>>
    /\ UNCHANGED diskVars
    /\ UNCHANGED execVars
    /\ UNCHANGED menuVars

\* getBaseDiskName of what getBaseDiskName returned
GetBaseDiskNameAgain ==
    /\ baseDiskName.called
    /\ baseDiskName.times = 1
    /\ baseDiskName' = [baseDiskName EXCEPT !.base = getBaseDiskName(@),
                                            !.times = 2]
    /\ UNCHANGED <<groups, prevGroups, stats, shown, devicePath>>
    /\ UNCHANGED diskVars
    /\ UNCHANGED execVars
    /\ UNCHANGED menuVars

BaseNameNext ==
    \/ GetBaseDiskName
    \/ GetBaseDiskNameAgain

BaseNameSpec == BaseNameInit /\ [][BaseNameNext]_vars

(***************************************************************************)
(* main: the menu loop                                                     *)
(***************************************************************************)
\* bufio.Scanner on stdin: a line of text, or no line because stdin ended
EOF == <<"EOF">>

\* strconv.Atoi: an optional sign, then decimal digits and nothing else
digitValue(c) == (CHOOSE i \in 1..Len(DecimalDigits) : DecimalDigits[i] = c) - 1

RECURSIVE digitsValue(_, _)
digitsValue(s, acc) ==
    IF s = <<>> THEN acc ELSE digitsValue(Tail(s), acc * 10 + digitValue(Head(s)))

Atoi(s) ==
    LET signed == s # <<>> /\ Head(s) \in {"+", "-"}
        digits == IF signed THEN Tail(s) ELSE s
    IN  IF digits = <<>> \/ \E i \in 1..Len(digits) : ~IsDigit(digits[i])
        THEN [err |-> TRUE, value |-> 0]
        ELSE [err |-> FALSE,
              value |-> IF signed /\ Head(s) = "-" THEN 0 - digitsValue(digits, 0)
                        ELSE digitsValue(digits, 0)]

\* what the handler of one option did (before: the registry as handleRescan
\* found it)
Handled(option) == [NoMenu EXCEPT !.option = option, !.friendly = friendlyView]

\* lines typed at the prompts
MenuPaths == {<<"/","m","n","t">>, <<"/","m","n","t","/",".",".">>, <<"/","n","o","p","e">>, <<" ">>, EOF}
MenuCommands == {<<>>, <<"m", "a", "k", "e">>, <<" ", "s", "u", "d", "o", " ", "a", "p", "t", " ">>, EOF}
Selections == {<<>>, <<"1">>, <<" ", "2", " ">>, <<"9">>, <<"0">>, <<"x">>, <<"+", "1">>, <<"-", "1">>, <<"1", "x">>, EOF}

\* main 36-38: the initial scan; its error is only printed
InitialScan ==
    /\ menu = "start"
    /\ LET r == scanDisks(disks, mountTable, statfsOf) IN
        /\ Len(r.disks) <= MaxDisks
        /\ disks' = r.disks
        /\ lastOp' = [op |-> "ScanDisks", err |-> r.err, before |-> disks]
    /\ menu' = "draw"
    /\ UNCHANGED <<scanCache, mountTable, statfsOf>>
    /\ UNCHANGED <<friendlyView, showDetails, lastMenu>>
    /\ UNCHANGED execVars
    /\ UNCHANGED viewVars

\* main 41-54, the top of an iteration: the friendly view groups the registry
\* and renders the groups, the technical view takes the statistics and
\* renders the summary. The locals of the iteration before are gone, and
\* lastMenu keeps only whether stdin has ended
DrawView ==
    /\ menu = "draw"
    /\ IF friendlyView
       THEN /\ \E returned \in GroupDisksResults(disks) :
                /\ groups' = [called |-> TRUE, groups |-> returned]
                /\ \E lines \in friendlyRenderings(returned) :
                    shown' = Rendered("DisplayFriendlyDisks", lines)
            /\ prevGroups' = NotCalled
            /\ stats' = NotCalled
       ELSE /\ stats' = getStats(disks)
            /\ shown' = Rendered("DisplaySummary",
                                 <<[size    |-> getStats(disks).TotalSize,
                                    percent |-> usedPercent(getStats(disks).TotalUsed,
                                                            getStats(disks).TotalSize)]>>
                                 \o mainStorageLines(disks, 0))
            /\ groups' = NotCalled
            /\ prevGroups' = NotCalled
    /\ menu' = "option"
    /\ lastMenu' = [NoMenu EXCEPT !.eof = lastMenu.eof]
    /\ UNCHANGED <<devicePath, baseDiskName>>
    /\ UNCHANGED <<friendlyView, showDetails>>
    /\ UNCHANGED diskVars
    /\ UNCHANGED execVars

\* main 59-61 and 85-87: stdin ended, or option 6
Exit ==
    /\ menu = "option"
    /\ menu' = "exited"
    /\ lastMenu' = IF lastMenu.eof THEN lastMenu ELSE Handled("6")
    /\ UNCHANGED <<friendlyView, showDetails>>
    /\ UNCHANGED diskVars
    /\ UNCHANGED execVars
    /\ UNCHANGED viewVars

\* main 88-89: any other option
InvalidOption ==
    /\ menu = "option"
    /\ ~lastMenu.eof
    /\ menu' = "draw"
    /\ lastMenu' = [Handled("default") EXCEPT !.invalid = TRUE]
    /\ UNCHANGED <<friendlyView, showDetails>>
    /\ UNCHANGED diskVars
    /\ UNCHANGED execVars
    /\ UNCHANGED viewVars

\* main 75-82: option 4
ToggleDetails ==
    /\ menu = "option"
    /\ ~lastMenu.eof
    /\ IF friendlyView
       THEN /\ friendlyView' = FALSE
            /\ UNCHANGED showDetails
       ELSE /\ showDetails' = ~showDetails
            /\ UNCHANGED friendlyView
    /\ menu' = "draw"
    /\ lastMenu' = Handled("4")
    /\ UNCHANGED diskVars
    /\ UNCHANGED execVars
    /\ UNCHANGED viewVars

\* main 83-85: option 5
ToggleFriendly ==
    /\ menu = "option"
    /\ ~lastMenu.eof
    /\ friendlyView' = ~friendlyView
    /\ menu' = "draw"
    /\ lastMenu' = Handled("5")
    /\ UNCHANGED showDetails
    /\ UNCHANGED diskVars
    /\ UNCHANGED execVars
    /\ UNCHANGED viewVars

\* handleAddDisk: option 1
HandleAddDisk ==
    /\ menu = "option"
    /\ ~lastMenu.eof
    /\ \E line \in MenuPaths :
        LET path == TrimSpace(line)
            r == addCustomPath(disks, path, statfsOf)
        IN  IF line = EOF \/ path = <<>>
            THEN /\ lastMenu' = [Handled("1") EXCEPT !.eof = (line = EOF)]
                 /\ UNCHANGED <<disks, lastOp>>
            ELSE /\ Len(r.disks) <= MaxDisks
                 /\ disks' = r.disks
                 /\ lastOp' = [op |-> "AddCustomPath", err |-> r.err, before |-> disks,
                              arg |-> path]
                 /\ lastMenu' = Handled("1")
    /\ menu' = "draw"
    /\ UNCHANGED <<scanCache, mountTable, statfsOf>>
    /\ UNCHANGED <<friendlyView, showDetails>>
    /\ UNCHANGED execVars
    /\ UNCHANGED viewVars

\* what /proc/mounts holds when main reads it: the tables of RegistrySpec and
\* one with two records for one mount point
MenuTables ==
    RegistryTables \cup
    {ReadableTable(<<mountLine(sda1, root, ext4, rw), mountLine(sdb1, root, ext4, rw)>>)}

\* mutant of HandleRescan: the registry is not cleared before the scan
HandleRescanNoClear ==
    /\ menu = "option"
    /\ ~lastMenu.eof
    /\ \E table \in MenuTables :
        LET r == scanDisks(disks, table, statfsOf) IN
        /\ Len(r.disks) <= MaxDisks
        /\ mountTable' = table
        /\ disks' = r.disks
        /\ lastOp' = [op |-> "ScanDisks", err |-> r.err, before |-> disks]
    /\ scanCache' = {}
    /\ menu' = "draw"
    /\ lastMenu' = [Handled("3") EXCEPT !.before = disks]
    /\ UNCHANGED statfsOf
    /\ UNCHANGED <<friendlyView, showDetails>>
    /\ UNCHANGED execVars
    /\ UNCHANGED viewVars

\* handleRescan: option 3, ClearDisks and then ScanDisks on the mount table
\* as it is now; the scan's error is only printed
HandleRescan ==
    /\ menu = "option"
    /\ ~lastMenu.eof
    /\ \E table \in MenuTables :
        LET r == scanDisks(<<>>, table, statfsOf) IN
        /\ Len(r.disks) <= MaxDisks
        /\ mountTable' = table
        /\ disks' = r.disks
        /\ lastOp' = [op |-> "ScanDisks", err |-> r.err, before |-> <<>>]
    /\ scanCache' = {}
    /\ menu' = "draw"
    /\ lastMenu' = [Handled("3") EXCEPT !.before = disks]
    /\ UNCHANGED statfsOf
    /\ UNCHANGED <<friendlyView, showDetails>>
    /\ UNCHANGED execVars
    /\ UNCHANGED viewVars

\* the *disk.Disk handed to ExecuteCommand
Target(disk) == [present |-> TRUE, MountPoint |-> disk.MountPoint]

\* handleInstallCommand 201-212: the friendly view's pick among the groups;
\* a line that selects nothing leaves targetDisk nil
selectDrive(gs, line) ==
    LET driveIDStr == TrimSpace(line)
        driveID == Atoi(driveIDStr)
    IN  IF /\ line # EOF
           /\ driveIDStr # <<>>
           /\ ~driveID.err
           /\ driveID.value > 0
           /\ driveID.value <= Len(gs)
           /\ Len(gs[driveID.value].Disks) > 0
        THEN [invalid |-> FALSE, target |-> Target(gs[driveID.value].Disks[1])]
        ELSE [invalid |-> FALSE, target |-> NoDisk]

\* handleInstallCommand 213-227: the technical view's pick among the disks
selectDisk(ds, line) ==
    LET diskIDStr == TrimSpace(line)
        diskID == Atoi(diskIDStr)
    IN  IF line = EOF \/ diskIDStr = <<>>
        THEN [invalid |-> FALSE, target |-> NoDisk]
        ELSE IF diskID.err \/ diskID.value < 1 \/ diskID.value > Len(ds)
        THEN [invalid |-> TRUE, target |-> NoDisk]
        ELSE [invalid |-> FALSE, target |-> Target(ds[diskID.value])]

\* handleInstallCommand: option 2. lastMenu records whether
\* installer.ExecuteCommand was called and with which command and target;
\* the call itself is an invocation of ExecSpec, it leaves main's variables
\* alone and its result is only printed
HandleInstallCommand ==
    /\ menu = "option"
    /\ ~lastMenu.eof
    /\ \E line \in MenuCommands :
        IF line = EOF \/ TrimSpace(line) = <<>>
        THEN /\ lastMenu' = [Handled("2") EXCEPT !.eof = (line = EOF),
                                                 !.invalid = (line # EOF)]
             /\ UNCHANGED <<groups, prevGroups>>
        ELSE \E selection \in Selections :
             \E returned \in IF friendlyView THEN GroupDisksResults(disks) ELSE {<<>>} :
                LET picked == IF friendlyView THEN selectDrive(returned, selection)
                              ELSE selectDisk(disks, selection)
                IN  /\ lastMenu' = [Handled("2") EXCEPT
                                       !.command = TrimSpace(line),
                                       !.selection = selection,
                                       !.eof = (selection = EOF),
                                       !.listed = IF friendlyView THEN Len(returned)
                                                  ELSE Len(disks),
                                       !.invalid = picked.invalid,
                                       !.called = ~picked.invalid,
                                       !.target = picked.target]
                    /\ IF friendlyView
                       THEN /\ groups' = [called |-> TRUE, groups |-> returned]
                            /\ prevGroups' = groups
                       ELSE UNCHANGED <<groups, prevGroups>>
    /\ menu' = "draw"
    /\ UNCHANGED <<stats, shown, devicePath, baseDiskName>>
    /\ UNCHANGED <<friendlyView, showDetails>>
    /\ UNCHANGED diskVars
    /\ UNCHANGED execVars

\* statfs as main finds it
MenuStatfs == {
    [m \in MountPoints |-> StatfsSane],
    [m \in MountPoints |-> IF m = mnt THEN StatfsFail ELSE StatfsSane],
    [m \in MountPoints |-> IF m = mnt THEN StatfsOdd ELSE StatfsSane] }

MenuInit ==
    /\ ExecIdle
    /\ disks = <<>>
    /\ scanCache = {}
    /\ mountTable \in MenuTables
    /\ statfsOf \in MenuStatfs
    /\ lastOp = NoOp
    /\ ViewIdle
    /\ friendlyView = TRUE
    /\ showDetails = FALSE
    /\ menu = "start"
    /\ lastMenu = NoMenu

MenuNext ==
    \/ InitialScan
    \/ DrawView
    \/ HandleAddDisk
    \/ HandleInstallCommand
    \/ HandleRescan
    \/ ToggleDetails
    \/ ToggleFriendly
    \/ Exit
    \/ InvalidOption

MenuSpec == MenuInit /\ [][MenuNext]_vars

(***************************************************************************)
(* Properties of installer.ExecuteCommand                                  *)
(***************************************************************************)
Events(kind) == {i \in DOMAIN trace : trace[i].ev = kind}
FirstRuns    == {i \in Events("run") : ~trace[i].escalated}
Retries      == {i \in Events("run") : trace[i].escalated}
PackageManagerNames == {apt, dpkg, yum, dnf, pacman, zypper}
FirstToken(c) == IF Fields(c) = <<>> THEN <<>> ELSE Fields(c)[1]

\* C1: with a target disk, every start of a child command (first run or
\* escalated retry) is preceded by a write probe of the disk's mount point
\* that succeeded, and once a probe has failed no child command is ever
\* started and the invocation has returned the write-permission error.
C1_ProbeBeforeRun ==
    targetDisk.present =>
        /\ \A i \in Events("run") :
              \E j \in 1..(i - 1) :
                  /\ trace[j].ev = "probe"
                  /\ trace[j].ok
                  /\ trace[j].text = targetDisk.MountPoint
        /\ \A j \in Events("probe") :
              ~trace[j].ok =>
                  /\ Events("run") = {}
                  /\ pc = "done"
                  /\ result = ErrNoWrite

C1_Witness ==
    /\ targetDisk.present
    /\ pc = "done"
    /\ result = ErrNoWrite
    /\ \E j \in Events("probe") : ~trace[j].ok

\* C2: the first run is followed by the escalation prompt exactly when it
\* ended with exit code 100, or with exit code 1 or 2 and a command text that
\* contains apt, dpkg, yum, dnf, pacman or zypper; exit 0, any other exit
\* code, exit 1 or 2 with other text, and a failure to start never are.
C2_Classification ==
    \A i \in FirstRuns :
        LET out == trace[i].out
            prompted == pc = "prompt" \/ \E j \in Events("prompt") : j > i
            suspected ==
                /\ out.kind = "exit"
                /\ \/ out.code = 100
                   \/ /\ out.code \in {1, 2}
                      /\ \E name \in PackageManagerNames : Contains(command, name)
        IN  prompted <=> suspected

C2_Witness ==
    /\ pc = "prompt"
    /\ command = <<"a","d","a","p","t">>
    /\ \E i \in FirstRuns : trace[i].out = [kind |-> "exit", code |-> 2]

\* C3: when the answer to the escalation prompt is not yes or y, the prompt is
\* the last step of the invocation (no command is started after it) and the
\* invocation has returned the cancellation error, which is neither success
\* nor the error of a failed command.
C3_RefusalCancels ==
    \A i \in Events("prompt") :
        scanResponse(trace[i].text) \notin {yes, y} =>
            /\ i = Len(trace)
            /\ Retries = {}
            /\ pc = "done"
            /\ result = ErrCancelled
            /\ result \notin Outcomes

C3_Witness ==
    /\ pc = "done"
    /\ result = ErrCancelled
    /\ \E i \in Events("prompt") : trace[i].text = <<"n","o">>

\* C4: the command of the escalated retry has sudo as its first token, and a
\* command whose first token already is sudo is re-run unchanged.
C4_SudoOnce ==
    pc = "retry" =>
        /\ cmd.argv[1] = sudo
        /\ FirstToken(command) = sudo =>
              /\ sudoCommand = command
              /\ cmd.argv = Fields(command)

\* C5 as stated: with a target disk the first run has the mount point as its
\* working directory and an environment that is the inherited one followed by
\* PREFIX, DESTDIR and INSTALL_ROOT, each with the mount point as its value.
C5_AllThreeAtMountPoint ==
    targetDisk.present =>
        \A i \in FirstRuns :
            LET c == trace[i].cmd IN
            /\ c.Dir = targetDisk.MountPoint
            /\ c.Env.set
            /\ SubSeq(c.Env.vars, 1, Len(environ)) = environ
            /\ ChildGetenv(c.Env, environ, "PREFIX") = targetDisk.MountPoint
            /\ ChildGetenv(c.Env, environ, "DESTDIR") = targetDisk.MountPoint
            /\ ChildGetenv(c.Env, environ, "INSTALL_ROOT") = targetDisk.MountPoint

\* C5 amended: with a target disk the first run has the mount point as its
\* working directory and an environment that is the inherited one followed by
\* exactly three variables: DESTDIR and INSTALL_ROOT with the mount point as
\* value, and PREFIX with $HOME/.local as value.
C5_TargetEnvironment ==
    targetDisk.present =>
        \A i \in FirstRuns :
            LET c == trace[i].cmd IN
            /\ c.Dir = targetDisk.MountPoint
            /\ c.Env.set
            /\ Len(c.Env.vars) = Len(environ) + 3
            /\ SubSeq(c.Env.vars, 1, Len(environ)) = environ
            /\ ChildGetenv(c.Env, environ, "PREFIX") = Getenv(environ, "HOME") \o dotLocal
            /\ ChildGetenv(c.Env, environ, "DESTDIR") = targetDisk.MountPoint
            /\ ChildGetenv(c.Env, environ, "INSTALL_ROOT") = targetDisk.MountPoint

C5_Witness ==
    /\ targetDisk.present
    /\ Getenv(environ, "DESTDIR") # <<>>
    /\ Getenv(environ, "DESTDIR") # targetDisk.MountPoint
    /\ \E i \in FirstRuns : trace[i].ok

\* C6: when the command text contains sudo, the confirmation step is the first
\* step of the invocation, before any write probe and any child command; when
\* it does not, the confirmation is never asked.
C6_ConfirmFirst ==
    IF Contains(command, sudo)
    THEN \A i \in Events("probe") \cup Events("run") \cup Events("prompt") :
            \E j \in 1..(i - 1) : trace[j].ev = "confirm"
    ELSE Events("confirm") = {}

C6_Witness ==
    /\ command = <<"v","i","s","u","d","o">>
    /\ targetDisk.present
    /\ Events("confirm") # {}
    /\ Events("probe") # {}
    /\ Events("run") # {}

\* C7: the escalated retry has no working directory and no environment of its
\* own, although the first run had them when a target disk was given; with a
\* target disk the caveat is printed before the retry starts, without one it
\* is never printed.
C7_RetryWithoutTarget ==
    /\ \A i \in Retries :
          /\ trace[i].cmd.Dir = <<>>
          /\ trace[i].cmd.Env = NilEnv
          /\ \A k \in FirstRuns :
                targetDisk.present => trace[k].cmd.Dir = targetDisk.MountPoint
    /\ IF targetDisk.present
       THEN /\ pc = "retry" => Events("caveat") # {}
            /\ \A i \in Retries : \E j \in 1..(i - 1) : trace[j].ev = "caveat"
       ELSE Events("caveat") = {}

C7_Witness ==
    /\ targetDisk.present
    /\ \E i \in Retries : trace[i].ok
    /\ \E k \in FirstRuns : trace[k].cmd.Env.set

\* the seven ways an invocation can end
TerminalOutcomes ==
    {"empty command", "no write permission", "success", "failure",
     "cancelled", "retry success", "retry failure"}

\* the invocation has ended in the given way
EndedIn(outcome) ==
    CASE outcome = "empty command" ->
             result = ErrEmpty /\ Events("run") = {} /\ Events("probe") = {}
      [] outcome = "no write permission" ->
             result = ErrNoWrite /\ Events("run") = {}
      [] outcome = "success" ->
             result = RunOk /\ Retries = {} /\ Events("prompt") = {}
                 /\ Cardinality(FirstRuns) = 1
      [] outcome = "failure" ->
             result \in Outcomes \ {RunOk} /\ Retries = {} /\ Events("prompt") = {}
                 /\ Cardinality(FirstRuns) = 1
      [] outcome = "cancelled" ->
             result = ErrCancelled /\ Retries = {} /\ Cardinality(Events("prompt")) = 1
      [] outcome = "retry success" ->
             result = RunOk /\ Cardinality(Retries) = 1
      [] outcome = "retry failure" ->
             result \in Outcomes \ {RunOk} /\ Cardinality(Retries) = 1

\* C20: an invocation starts a child at most twice (one first run, one
\* escalated retry) and shows the escalation prompt at most once, after the
\* first run and before the retry; the retry's outcome is the returned
\* result and nothing follows it, no second classification or prompt; an
\* invocation that has not ended can take a step, and one that has ended did
\* so in exactly one of the seven terminal outcomes
C20_StateMachine ==
    /\ Cardinality(FirstRuns) <= 1
    /\ Cardinality(Retries) <= 1
    /\ Cardinality(Events("prompt")) <= 1
    /\ \A p \in Events("prompt") : \E f \in FirstRuns : f < p
    /\ \A r \in Retries : \E p \in Events("prompt") : p < r
    /\ \A r \in Retries :
           /\ r = Len(trace)
           /\ pc = "done"
           /\ result = trace[r].out
    /\ pc = "done" <=> result # Pending
    /\ pc # "done" => ENABLED ExecNext
    /\ pc = "done" => Cardinality({o \in TerminalOutcomes : EndedIn(o)}) = 1

\* the escalated retry ended with the package manager's permission exit
\* code again, and that was returned
C20_Witness ==
    /\ pc = "done"
    /\ Retries # {}
    /\ result = [kind |-> "exit", code |-> PermissionExitCode]
    /\ containsPackageManager(sudoCommand)

(***************************************************************************)
(* Properties of disk.Manager                                              *)
(***************************************************************************)
\* the records of the mount table: the lines with at least four fields
Records == {i \in DOMAIN mountTable.lines : Len(Fields(mountTable.lines[i])) >= 4}
RecordField(i, n) == Fields(mountTable.lines[i])[n]
RecordsAt(mp) == {i \in Records : RecordField(i, 2) = mp}
FirstRecordAt(mp) == CHOOSE i \in RecordsAt(mp) : \A j \in RecordsAt(mp) : i <= j
StoredAt(mp) == {k \in DOMAIN disks : disks[k].MountPoint = mp}
ScanDone == lastOp.op = "ScanDisks"

\* the chain of the classifier, as the documentation orders it
ChainType(device, filesystem, options) ==
    IF Contains(options, <<"b","i","n","d">>) THEN "bind"
    ELSE IF HasPrefix(device, <<"/","d","e","v","/","l","o","o","p">>) THEN "loop"
    ELSE IF HasPrefix(device, <<"/","d","e","v","/","m","a","p","p","e","r","/">>)
    THEN "lvm"
    ELSE IF HasPrefix(device, <<"/","d","e","v","/">>) THEN "physical"
    ELSE IF filesystem \in {<<"n","f","s">>, <<"n","f","s","4">>,
                            <<"c","i","f","s">>, <<"s","m","b">>}
    THEN "network"
    ELSE IF Contains(filesystem, <<"f","u","s","e">>) THEN "fuse"
    ELSE IF HasPrefix(device, <<"/">>) /\ ~HasPrefix(device, <<"/","d","e","v","/">>)
    THEN "path"
    ELSE ""

\* C8: after one ScanDisks on an empty registry, each mount point of the
\* table has at most one Disk, that Disk carries the device and filesystem of
\* the first record with that mount point, and there is none when that first
\* record was dropped (virtual filesystem, no disk type, failed capacity
\* query), whatever records follow it.
C8_FirstRecordWins ==
    ScanDone =>
        /\ \A k \in DOMAIN disks : RecordsAt(disks[k].MountPoint) # {}
        /\ \A mp \in {RecordField(i, 2) : i \in Records} :
              LET first == FirstRecordAt(mp)
                  dropped ==
                      \/ RecordField(first, 3) \in virtualFS
                      \/ ChainType(RecordField(first, 1), RecordField(first, 3),
                                   RecordField(first, 4)) = ""
                      \/ statfsOf[mp].err
              IN  /\ Cardinality(StoredAt(mp)) <= 1
                  /\ \A k \in StoredAt(mp) :
                        /\ disks[k].Device = RecordField(first, 1)
                        /\ disks[k].Filesystem = RecordField(first, 3)
                  /\ dropped => StoredAt(mp) = {}
                  /\ ~dropped => StoredAt(mp) # {}

C8_Witness ==
    /\ ScanDone
    /\ mountTable.lines = <<mountLine(tmpfs, root, tmpfs, rw),
                            mountLine(sda1, root, ext4, rw),
                            mountLine(sdb1, root, ext4, rw)>>
    /\ ~statfsOf[root].err
    /\ disks = <<>>

\* C9: every Disk of the registry has 0 <= Used <= Size and
\* 0 <= Available <= Size.
C9_UsedAvailableWithinSize ==
    \A k \in DOMAIN disks :
        /\ 0 <= disks[k].Used /\ disks[k].Used <= disks[k].Size
        /\ 0 <= disks[k].Available /\ disks[k].Available <= disks[k].Size

\* C10: the Disk a scan stores for a record has the type the ordered chain
\* gives for the record's device, filesystem and options; a record for which
\* the chain gives no type is not stored; every stored Disk has one of the
\* seven types of the chain.
C10_OrderedChain ==
    ScanDone =>
        /\ \A k \in DOMAIN disks :
              disks[k].Type \in {"bind", "loop", "lvm", "physical", "network",
                                 "fuse", "path"}
        /\ \A mp \in {RecordField(i, 2) : i \in Records} :
              LET first == FirstRecordAt(mp)
                  expected == ChainType(RecordField(first, 1), RecordField(first, 3),
                                        RecordField(first, 4))
              IN  /\ \A k \in StoredAt(mp) : disks[k].Type = expected
                  /\ expected = "" => StoredAt(mp) = {}
                  /\ (/\ expected # ""
                      /\ RecordField(first, 3) \notin virtualFS
                      /\ ~statfsOf[mp].err) => StoredAt(mp) # {}

C10_Witness ==
    /\ ScanDone
    /\ mountTable.lines = <<mountLine(devFuse, mnt, fuse, rw)>>
    /\ Len(disks) = 1
    /\ disks[1].Type = "physical"

\* the sequence short is the beginning of the sequence long
IsPrefix(short, long) ==
    /\ Len(short) <= Len(long)
    /\ SubSeq(long, 1, Len(short)) = short

\* C18: AddCustomPath on a path that does not exist, is not a directory or
\* whose capacity query fails returns an error, and whenever it returns an
\* error the disks are as they were; when it succeeds it has appended one
\* Disk of type manual at the end and changed no entry before it
C18_AddCustomPath ==
    lastOp.op = "AddCustomPath" =>
        LET absPath == Abs(lastOp.arg)
            info == statPath(absPath)
        IN  /\ (~info.ok \/ ~info.dir \/ statfsOf[mountOf(absPath)].err)
                   => lastOp.err # "nil"
            /\ lastOp.err # "nil" => disks = lastOp.before
            /\ lastOp.err = "nil"
                   => /\ Len(disks) = Len(lastOp.before) + 1
                      /\ IsPrefix(lastOp.before, disks)
                      /\ disks[Len(disks)].Type = TypeManual

\* a file given as the path after a directory was added with success
C18_Witness ==
    /\ lastOp.op = "AddCustomPath"
    /\ lastOp.err = "path is not a directory"
    /\ lastOp.before # <<>>
    /\ lastOp.before[Len(lastOp.before)].Type = TypeManual

\* C19: ScanDisks only appends: after a ScanDisks call, failed or not, the
\* disks from before the call are an unchanged beginning of the disks; the
\* same holds for AddDisk and AddCustomPath, so that the disks are in the
\* order of their insertion; ClearDisks leaves no disk
C19_OnlyClearRemoves ==
    /\ lastOp.op \in {"ScanDisks", "AddDisk", "AddCustomPath"}
           => IsPrefix(lastOp.before, disks)
    /\ lastOp.op = "ClearDisks" => disks = <<>>

\* a scan that failed while reading, after it had appended a disk behind the
\* one the registry held
C19_Witness ==
    /\ lastOp.op = "ScanDisks"
    /\ lastOp.err # "nil"
    /\ lastOp.before # <<>>
    /\ Len(disks) > Len(lastOp.before)

(***************************************************************************)
(* Properties of disk.GroupDisks, Manager.GetStats and the views           *)
(***************************************************************************)
\* the groups the last GroupDisks call returned
Returned == IF groups.called THEN groups.groups ELSE <<>>

\* the sum of one field over a sequence of disks, in the unsigned arithmetic
\* of the fields
RECURSIVE SumOver(_, _)
SumOver(ds, field) ==
    IF ds = <<>> THEN 0 ELSE (Head(ds)[field] + SumOver(Tail(ds), field)) % UintMod

\* C11: in every group GroupDisks returns, TotalSize is the sum of the
\* members' Size and TotalUsed the sum of their Used; in every data and
\* network group Available is the sum of the members' Available
C11_GroupTotals ==
    \A k \in 1..Len(Returned) :
        LET group == Returned[k]
        IN  /\ group.TotalSize = SumOver(group.Disks, "Size")
            /\ group.TotalUsed = SumOver(group.Disks, "Used")
            /\ group.Type \in {"data", "network"}
                   => group.Available = SumOver(group.Disks, "Available")

\* a data group of two partitions next to a network group
C11_Witness ==
    /\ \E k \in 1..Len(Returned) :
          Returned[k].Type = "data" /\ Len(Returned[k].Disks) = 2
    /\ \E k \in 1..Len(Returned) : Returned[k].Type = "network"

\* the positions of the system groups in what GroupDisks returned
SystemGroups == {k \in 1..Len(Returned) : Returned[k].Type = "system"}

\* the registry positions of the disks mounted at "/"
RootMounted == {i \in 1..Len(disks) : disks[i].MountPoint = root}

FirstRootMounted == disks[CHOOSE i \in RootMounted : \A j \in RootMounted : i <= j]

BootMounted == SelectSeq(disks, LAMBDA d : HasPrefix(d.MountPoint, bootPrefix))

\* the disks that are members of the group at position k
MembersOf(k) == {Returned[k].Disks[m] : m \in 1..Len(Returned[k].Disks)}

\* C12: GroupDisks returns one system group when a disk is mounted at "/" and
\* none otherwise; its members are the first disk mounted at "/" and every
\* disk whose mount point starts with "/boot", its Available is that of the
\* root disk alone, and no member of it is a member of another group
C12_SystemGroup ==
    groups.called =>
        /\ Cardinality(SystemGroups) = (IF RootMounted # {} THEN 1 ELSE 0)
        /\ \A k \in SystemGroups :
            /\ Returned[k].Disks = <<FirstRootMounted>> \o BootMounted
            /\ Returned[k].Available = FirstRootMounted.Available
            /\ \A j \in (1..Len(Returned)) \ {k} : MembersOf(j) \cap MembersOf(k) = {}

\* a system group of the root and a boot partition, next to another group
C12_Witness ==
    /\ groups.called
    /\ \E k \in SystemGroups : Len(Returned[k].Disks) = 2
    /\ Len(Returned) = 2

\* the registry positions of the disks below 1 GiB that are not members of
\* the system group
SmallOutsideSystem ==
    {i \in 1..Len(disks) :
        /\ disks[i].Size < GiB
        /\ \A k \in SystemGroups : disks[i] \notin MembersOf(k)}

\* the disk at position i is a member of a group GroupDisks returned
Surfaces(i) == \E k \in 1..Len(Returned) : disks[i] \in MembersOf(k)

\* the registry without position i
Without(i) == SubSeq(disks, 1, i - 1) \o SubSeq(disks, i + 1, Len(disks))

NotSymlinks(ds) == SelectSeq(ds, LAMBDA d : d.Type # TypeSymlink)

\* the capacity totals of GetStats are those of the other disks plus the
\* disk at position i
CountedInTotals(i) ==
    /\ stats.TotalSize =
           (SumOver(NotSymlinks(Without(i)), "Size") + disks[i].Size) % UintMod
    /\ stats.TotalUsed =
           (SumOver(NotSymlinks(Without(i)), "Used") + disks[i].Used) % UintMod
    /\ stats.TotalAvailable =
           (SumOver(NotSymlinks(Without(i)), "Available") + disks[i].Available) % UintMod

\* C13 as stated: a disk below 1 GiB that is not merged into the system group
\* is a member of no group GroupDisks returns, while it is still in the
\* registry and counted in the totals of GetStats
C13_SmallNeverSurfaces ==
    (groups.called /\ stats.called) =>
        \A i \in SmallOutsideSystem :
            /\ ~Surfaces(i)
            /\ stats.TotalDisks = Len(disks)
            /\ CountedInTotals(i)

\* C13 amended: a disk below 1 GiB that is not merged into the system group
\* and is not of type network or fuse is a member of no group GroupDisks
\* returns; every disk below 1 GiB is still in the registry and counted in
\* TotalDisks, and in the capacity totals unless its type is symlink
C13_SmallLocalNeverSurfaces ==
    (groups.called /\ stats.called) =>
        \A i \in SmallOutsideSystem :
            /\ disks[i].Type \notin {TypeNetwork, TypeFUSE} => ~Surfaces(i)
            /\ stats.TotalDisks = Len(disks)
            /\ disks[i].Type # TypeSymlink => CountedInTotals(i)

\* grouped and counted: a small partition outside the system group that is
\* in no group, next to a disk that is in one
C13_Witness ==
    /\ groups.called
    /\ stats.called
    /\ \E i \in SmallOutsideSystem :
          disks[i].Type = TypePhysical /\ ~Surfaces(i) /\ stats.TotalSize > disks[i].Size
    /\ Len(Returned) > 0

\* C15: GroupDisks is deterministic: two calls on the same disks return the
\* same groups in the same order, the data groups among themselves included
C15_Deterministic ==
    (groups.called /\ prevGroups.called) => groups.groups = prevGroups.groups

\* the disks of the registry that count for the hardlink group of an inode
LinkedUnder(inode) ==
    SelectSeq(disks, LAMBDA d : d.Inode = inode /\ d.Type # TypeSymlink)

PathsOf(ds) == [k \in 1..Len(ds) |-> ds[k].Path]

\* C16: GetStats reports a hardlink group for an inode exactly when the inode
\* is greater than 0 and at least two disks of the registry that are not of
\* type symlink have it; the group's paths are the paths of those disks in
\* registry order, and no reported group has fewer than two paths
C16_HardlinkGroups ==
    stats.called =>
        /\ \A inode \in {disks[i].Inode : i \in 1..Len(disks)} \cup DOMAIN stats.Hardlinks :
               inode \in DOMAIN stats.Hardlinks
                   <=> (inode > 0 /\ Len(LinkedUnder(inode)) >= 2)
        /\ \A inode \in DOMAIN stats.Hardlinks :
            /\ stats.Hardlinks[inode] = PathsOf(LinkedUnder(inode))
            /\ Len(stats.Hardlinks[inode]) >= 2

\* a group of two paths reported while a symlink with the same inode and a
\* disk with an inode of its own are in the registry too
C16_Witness ==
    /\ stats.called
    /\ \E inode \in DOMAIN stats.Hardlinks :
        /\ Len(stats.Hardlinks[inode]) = 2
        /\ \E i \in 1..Len(disks) :
              disks[i].Inode = inode /\ disks[i].Type = TypeSymlink

\* C17: wherever a used-percentage is printed (the statistics summary, the
\* storage summary box, its per-disk lines, the drive groups), a size of 0
\* gives 0% and never the result of a division by zero
C17_ZeroSizeIsZeroPercent ==
    shown.called =>
        \A k \in 1..Len(shown.lines) :
            shown.lines[k].size = 0
                => /\ shown.lines[k].percent.float = "finite"
                   /\ shown.lines[k].percent.num = 0

\* the disks of the registry, each once
Listed == {disks[i] : i \in 1..Len(disks)}

\* how often a disk is in the registry
Occurrences(d) == Cardinality({i \in 1..Len(disks) : disks[i] = d})

\* how often a disk is a member of a returned group
Memberships(d) ==
    Cardinality({km \in (1..Len(Returned)) \X (1..MaxListed + 1) :
                    /\ km[2] <= Len(Returned[km[1]].Disks)
                    /\ Returned[km[1]].Disks[km[2]] = d})

\* the disks the second loop of GroupDisks is meant to take
Eligible(d) ==
    /\ \A k \in SystemGroups : d \notin MembersOf(k)
    /\ d.Type # TypeLoop
    /\ ~HasPrefix(d.MountPoint, snapPrefix)
    /\ ~HasPrefix(d.MountPoint, runPrefix)
    /\ ~HasPrefix(d.MountPoint, sysPrefix)
    /\ ~HasPrefix(d.MountPoint, procPrefix)
    /\ d.Size >= GiB

\* C22: GroupDisks partitions the eligible disks: no disk of the registry is
\* a member of two groups, and every disk that is not in the system group,
\* not of type loop, not mounted under /snap, /run, /sys or /proc and of
\* 1 GiB or more is a member of exactly one group, also when another disk
\* has the same device path
C22_Partition ==
    groups.called =>
        \A d \in Listed :
            /\ Memberships(d) <= Occurrences(d)
            /\ Eligible(d) => Memberships(d) = Occurrences(d)

\* C23: every disk of type network or fuse that is a member of a returned
\* group is the only member of a group of the network category, never a
\* member of a data group; the returned list has the system group first,
\* then the data groups, then the network groups
C23_NetworkSingletons ==
    LET rank(type) == IF type = "system" THEN 1 ELSE IF type = "data" THEN 2 ELSE 3
    IN  /\ \A k \in 1..Len(Returned) :
               \A d \in MembersOf(k) :
                   d.Type \in {TypeNetwork, TypeFUSE}
                       => Returned[k].Type = "network" /\ Len(Returned[k].Disks) = 1
        /\ \A j, k \in 1..Len(Returned) :
               j < k => rank(Returned[j].Type) <= rank(Returned[k].Type)

\* the display names that end in a number
Numbered(name) ==
    \E stem \in {<<"D", "r", "i", "v", "e", " ">>, <<"S", "S", "D", " ", "D", "r", "i", "v", "e", " ">>, <<"V", "o", "l", "u", "m", "e", " ">>, <<"S", "t", "o", "r", "a", "g", "e", " ">>} :
        HasPrefix(name, stem)

\* C24: two data groups returned by one GroupDisks call never have the same
\* numbered display name ("Drive N", "SSD Drive N", "Volume N", "Storage N")
C24_NumberedNamesDiffer ==
    \A j, k \in 1..Len(Returned) :
        (/\ j # k
         /\ Returned[j].Type = "data"
         /\ Returned[k].Type = "data"
         /\ Numbered(Returned[j].Name))
            => Returned[j].Name # Returned[k].Name

(***************************************************************************)
(* Properties of getBaseDiskName                                           *)
(***************************************************************************)
DigitChars == {"0", "1", "2", "3", "4", "5", "6", "7", "8", "9"}

\* C14: getBaseDiskName returns the path without its longest trailing run of
\* decimal digits and with nothing else changed; a path that ends in no digit
\* is returned as it is; paths that differ only in their trailing digits get
\* the same key; applying the function to its result changes nothing
C14_TrailingDigitsStripped ==
    baseDiskName.called =>
        /\ \E k \in 0..Len(devicePath) :
            /\ baseDiskName.first = SubSeq(devicePath, 1, k)
            /\ \A i \in (k + 1)..Len(devicePath) : devicePath[i] \in DigitChars
            /\ k = 0 \/ devicePath[k] \notin DigitChars
        /\ (devicePath = <<>> \/ devicePath[Len(devicePath)] \notin DigitChars)
               => baseDiskName.first = devicePath
        /\ \A run \in DigitRuns :
               getBaseDiskName(baseDiskName.first \o run) = baseDiskName.first
        /\ baseDiskName.times = 2 => baseDiskName.base = baseDiskName.first

\* a partition number of two digits stripped from a path that has digits
\* further left, and the function applied to the result
C14_Witness ==
    /\ baseDiskName.called
    /\ baseDiskName.times = 2
    /\ Len(baseDiskName.first) + 2 = Len(devicePath)
    /\ \E i \in 1..Len(baseDiskName.first) : baseDiskName.first[i] \in DigitChars

(***************************************************************************)
(* Properties of main's menu loop                                          *)
(***************************************************************************)
ScanDerived(d) == d.Type # TypeManual

\* C21: whatever options were taken so far, the registry holds at most one
\* scan-derived (non-manual) disk for any mount point; and right after a
\* rescan the registry is exactly what a scan of the mount table just read
\* yields from an empty registry: no manual entry is left, and every entry
\* has its device and mount point on a record of that table
C21_RescanReplaces ==
    /\ \A i, j \in 1..Len(disks) :
           (i # j /\ ScanDerived(disks[i]) /\ ScanDerived(disks[j]))
               => disks[i].MountPoint # disks[j].MountPoint
    /\ lastMenu.option = "3" =>
           /\ \A i \in 1..Len(disks) :
                  /\ ScanDerived(disks[i])
                  /\ \E k \in 1..Len(mountTable.lines) :
                         LET fields == Fields(mountTable.lines[k])
                         IN  /\ Len(fields) >= 4
                             /\ fields[1] = disks[i].Device
                             /\ fields[2] = disks[i].MountPoint
           /\ disks = scanDisks(<<>>, mountTable, statfsOf).disks

\* a rescan found a manual and a scanned entry in the registry and scanned a
\* table that yields a disk
C21_Witness ==
    /\ lastMenu.option = "3"
    /\ \E i \in 1..Len(lastMenu.before) : ~ScanDerived(lastMenu.before[i])
    /\ \E i \in 1..Len(lastMenu.before) : ScanDerived(lastMenu.before[i])
    /\ Len(disks) >= 1

\* the line typed at the selection prompt is text that is no number, or a
\* number outside 1..listed
InvalidSelection(line, listed) ==
    /\ line # EOF
    /\ TrimSpace(line) # <<>>
    /\ \/ Atoi(TrimSpace(line)).err
       \/ Atoi(TrimSpace(line)).value < 1
       \/ Atoi(TrimSpace(line)).value > listed

\* C25: when handleInstallCommand has read a command and the selection typed
\* is invalid, installer.ExecuteCommand is not called, in the friendly view
\* and in the technical view alike; and the command is run with no target
\* only when no selection was typed
C25_InvalidNeverExecutes ==
    (lastMenu.option = "2" /\ lastMenu.command # <<>>) =>
        /\ InvalidSelection(lastMenu.selection, lastMenu.listed) => ~lastMenu.called
        /\ (lastMenu.called /\ ~lastMenu.target.present)
               => (lastMenu.selection = EOF \/ TrimSpace(lastMenu.selection) = <<>>)

====
